---- MODULE Spec2Model ----
(***************************************************************************)
(* Model of jsonize: the sink path algebra (jsonize/utils/json.py,         *)
(* JSONPath), the source path algebra (jsonize/utils/xml.py, XPath) and    *)
(* the tree reader / writer (get_item_from_json_path, write_item_in_path). *)
(*                                                                         *)
(* Path text is a sequence of tokens.  A token is one character of the     *)
(* text, except that a number literal (an optional '-' and its digits) is  *)
(* one token carrying its integer value.  Field names are one character    *)
(* long, so that text[0] is the first token and text[1:] is Tail(text).    *)
(***************************************************************************)
EXTENDS Integers, Sequences, FiniteSets, TLC

(* ------------------------------ bounds --------------------------------- *)
\* Largest number of segments written after the root marker of a path text.
MaxSegs == 2
\* Deepest nesting of the documents handed to the reader and the writer.
MaxDepth == 2
\* The most children a source element of the model has.
MaxItems == 3
\* The number of copies of a repeated element of an inferred document, and
\* the number of invocations of build_sequence_tree the model follows.
MaxCopies == 2
MaxPasses == 4

(* ------------------------------ text ----------------------------------- *)
Ch(c) == [k |-> "c", c |-> c, n |-> 0]
Nm(n) == [k |-> "n", c |-> ToString(n), n |-> n]

IsCh(toks, i, c) == i >= 1 /\ i <= Len(toks) /\ toks[i].k = "c" /\ toks[i].c = c
IsNum(toks, i) == i >= 1 /\ i <= Len(toks) /\ toks[i].k = "n"

\* str.index(c): position of the first occurrence, 0 when there is none
\* (Python raises ValueError there).
IndexOf(toks, c) ==
  IF \E i \in 1..Len(toks) : IsCh(toks, i, c)
  THEN CHOOSE i \in 1..Len(toks) : IsCh(toks, i, c) /\ \A j \in 1..(i - 1) : ~IsCh(toks, j, c)
  ELSE 0

\* str.split(sep): the pieces between the separators, [''] for the empty text.
RECURSIVE StrSplit(_, _)
StrSplit(toks, sep) ==
  LET i == IndexOf(toks, sep) IN
  IF i = 0 THEN <<toks>>
  ELSE <<SubSeq(toks, 1, i - 1)>> \o StrSplit(SubSeq(toks, i + 1, Len(toks)), sep)

\* sep.join(pieces)
RECURSIVE StrJoin(_, _)
StrJoin(pieces, sep) ==
  IF pieces = <<>> THEN <<>>
  ELSE IF Len(pieces) = 1 THEN pieces[1]
  ELSE pieces[1] \o <<Ch(sep)>> \o StrJoin(Tail(pieces), sep)

\* The Python string a piece of text denotes.
RECURSIVE StrOf(_)
StrOf(toks) == IF toks = <<>> THEN "" ELSE toks[1].c \o StrOf(Tail(toks))

\* The text of a Python string held in a path structure (names are single
\* characters; the empty string has the empty text).
TextOf(s) == IF s = "" THEN <<>> ELSE <<Ch(s)>>

(* ------------------------- path structure ------------------------------ *)
\* Optional integers: <<>> is None, <<n>> is the integer n.
None == <<>>
Some(n) == <<n>>
Truthy(o) == o # None /\ o[1] # 0

Name(s) == [k |-> "name", s |-> s, i |-> 0, start |-> None, stop |-> None, step |-> None]
Index(i) == [k |-> "int", s |-> "", i |-> i, start |-> None, stop |-> None, step |-> None]
Slice(a, b, c) == [k |-> "slice", s |-> "", i |-> 0, start |-> a, stop |-> b, step |-> c]

\* One bracket expression at the head of toks, as the pyparsing grammar
\*   "[" [start] [":" stop [":" step]] "]"
\* matches it: an Optional that cannot match consumes nothing.
SliceMatch(toks) ==
  LET hasStart == IsNum(toks, 2)
      p2 == IF hasStart THEN 3 ELSE 2
      hasStop == IsCh(toks, p2, ":") /\ IsNum(toks, p2 + 1)
      p3 == IF hasStop THEN p2 + 2 ELSE p2
      hasStep == hasStop /\ IsCh(toks, p3, ":") /\ IsNum(toks, p3 + 1)
      p4 == IF hasStep THEN p3 + 2 ELSE p3
  IN [ok |-> IsCh(toks, 1, "[") /\ IsCh(toks, p4, "]"),
      start |-> IF hasStart THEN Some(toks[2].n) ELSE None,
      stop |-> IF hasStop THEN Some(toks[p2 + 1].n) ELSE None,
      step |-> IF hasStep THEN Some(toks[p3 + 1].n) ELSE None,
      rest |-> SubSeq(toks, p4 + 1, Len(toks))]

\* The index or slice of one matched bracket expression.
SliceOf(m) ==
  IF m.start # None
  THEN IF ~(Truthy(m.stop) \/ Truthy(m.step))
       THEN Index(m.start[1])
       ELSE Slice(m.start, m.stop, m.step)
  ELSE Slice(None, m.stop, m.step)

\* Zero or more bracket expressions; parsing stops at the first text that is
\* no bracket expression and what follows is ignored.
RECURSIVE _parse_slices(_)
_parse_slices(toks) ==
  LET m == SliceMatch(toks) IN
  IF ~m.ok THEN <<>> ELSE <<SliceOf(m)>> \o _parse_slices(m.rest)

ElementStructure(element) ==
  LET slice_start == IndexOf(element, "[") IN
  IF slice_start = 0 THEN <<Name(StrOf(element))>>
  ELSE <<Name(StrOf(SubSeq(element, 1, slice_start - 1)))>>
       \o _parse_slices(SubSeq(element, slice_start, Len(element)))

RECURSIVE ElementsStructure(_)
ElementsStructure(elements) ==
  IF elements = <<>> THEN <<>>
  ELSE ElementStructure(elements[1]) \o ElementsStructure(Tail(elements))

_json_path_structure(json_path_string) == ElementsStructure(StrSplit(json_path_string, "."))

\* JSONPath(json_path)
JSONPath(json_path) ==
  [raw_json_path |-> json_path, json_path_structure |-> _json_path_structure(json_path)]


\* Placeholder for "no path object yet".
NoPath == [raw_json_path |-> <<>>, json_path_structure |-> <<>>]

RenderElement(e) ==
  IF e.k = "slice"
  THEN <<Ch("[")>> \o (IF Truthy(e.start) THEN <<Nm(e.start[1])>> ELSE <<>>)
       \o <<Ch(":")>> \o (IF Truthy(e.stop) THEN <<Nm(e.stop[1])>> ELSE <<>>)
       \o (IF Truthy(e.step) THEN <<Ch(":"), Nm(e.step[1])>> ELSE <<>>)
       \o <<Ch("]")>>
  ELSE IF e.k = "int" THEN <<Ch("["), Nm(e.i), Ch("]")>>
  ELSE <<Ch(".")>> \o TextOf(e.s)

RECURSIVE RenderElements(_)
RenderElements(es) ==
  IF es = <<>> THEN <<>> ELSE RenderElement(es[1]) \o RenderElements(Tail(es))

\* string_representation(json_path_structure): the first element is popped
\* and taken as it is; popping from the empty list raises IndexError.
string_representation(structure) ==
  IF structure = <<>> THEN [exc |-> "IndexError", text |-> <<>>]
  ELSE IF structure[1].k # "name" THEN [exc |-> "TypeError", text |-> <<>>]
  ELSE [exc |-> "none", text |-> TextOf(structure[1].s) \o RenderElements(Tail(structure))]

from_json_path_structure(structure) ==
  LET r == string_representation(structure) IN
  IF r.exc # "none" THEN [exc |-> r.exc, path |-> NoPath]
  ELSE [exc |-> "none", path |-> JSONPath(r.text)]

is_absolute(self) ==
  IF self.raw_json_path = <<>> THEN [exc |-> "IndexError", value |-> FALSE]
  ELSE [exc |-> "none", value |-> IsCh(self.raw_json_path, 1, "$")]

is_relative(self) ==
  IF self.raw_json_path = <<>> THEN [exc |-> "IndexError", value |-> FALSE]
  ELSE [exc |-> "none", value |-> IsCh(self.raw_json_path, 1, "@")]

\* list[:at] and list[at:] with Python's clamping and negative positions.
Upto(l, at) ==
  IF at >= 0 THEN SubSeq(l, 1, IF at > Len(l) THEN Len(l) ELSE at)
  ELSE SubSeq(l, 1, IF Len(l) + at < 0 THEN 0 ELSE Len(l) + at)
From(l, at) ==
  IF at >= 0 THEN SubSeq(l, (IF at > Len(l) THEN Len(l) ELSE at) + 1, Len(l))
  ELSE SubSeq(l, (IF Len(l) + at < 0 THEN 0 ELSE Len(l) + at) + 1, Len(l))

NoParts == [prefix |-> NoPath, suffix |-> NoPath]

\* JSONPath.split(at)
JSONPath_split(self, at) ==
  LET \* The return statement of split; p and q are what the two calls of
      \* from_json_path_structure returned or raised.
      split_return(p, q) ==
        IF p.exc # "none" THEN [exc |-> p.exc, parts |-> NoParts]
        ELSE IF q.exc # "none" THEN [exc |-> q.exc, parts |-> NoParts]
        ELSE [exc |-> "none", parts |-> [prefix |-> p.path, suffix |-> q.path]]
  IN
  LET Abs(n) == IF n < 0 THEN -n ELSE n
  IN
  LET s == self.json_path_structure IN
  IF ~(Abs(at) \in 1..Len(s)) THEN [exc |-> "IndexError", parts |-> NoParts]
  ELSE IF Len(s) = 1
  THEN [exc |-> "none",
        parts |-> [prefix |-> JSONPath(TextOf(s[1].s)), suffix |-> JSONPath(<<Ch("@")>>)]]
  ELSE split_return(from_json_path_structure(Upto(s, at)),
                    from_json_path_structure(<<Name("@")>> \o From(s, at)))

\* JSONPath.append(relative_path): the receiver after the call and the
\* exception raised.
JSONPath_append(self, relative_path) ==
  LET rel == is_relative(relative_path) IN
  IF rel.exc # "none" THEN [exc |-> rel.exc, self |-> self]
  ELSE IF ~rel.value THEN [exc |-> "ValueError", self |-> self]
  ELSE [exc |-> "none",
        self |-> [raw_json_path |-> self.raw_json_path \o Tail(relative_path.raw_json_path),
                  json_path_structure |->
                    self.json_path_structure \o Tail(relative_path.json_path_structure)]]

\* JSONPath.__eq__
JSONPath_eq(a, b) == a.json_path_structure = b.json_path_structure

(* ------------------------------ XPath ---------------------------------- *)
\* XPath(xpath)
XPath(xpath) == [raw_xpath |-> xpath]


NoXPath == [raw_xpath |-> <<>>]
NoXParts == [prefix |-> NoXPath, suffix |-> NoXPath]

_xpath_structure(self) == StrSplit(self.raw_xpath, "/")

\* XPath.split with the guard off by one (at >= 0).
XPath_split_guard_off_by_one(self, at) ==
  IF at >= 0
  THEN [exc |-> "none",
        parts |-> [prefix |-> XPath(StrJoin(Upto(_xpath_structure(self), at), "/")),
                   suffix |-> XPath(StrJoin(<<(<<Ch(".")>>)>> \o From(_xpath_structure(self), at), "/"))]]
  ELSE [exc |-> "ValueError", parts |-> NoXParts]

\* XPath.split(at)
XPath_split(self, at) ==
  IF at > 0
  THEN [exc |-> "none",
        parts |-> [prefix |-> XPath(StrJoin(Upto(_xpath_structure(self), at), "/")),
                   suffix |-> XPath(StrJoin(<<(<<Ch(".")>>)>> \o From(_xpath_structure(self), at), "/"))]]
  ELSE [exc |-> "ValueError", parts |-> NoXParts]

\* XPath.is_absolute: raw_xpath[0] raises IndexError on the empty text.
XPath_is_absolute(self) ==
  IF self.raw_xpath = <<>> THEN [exc |-> "IndexError", value |-> FALSE]
  ELSE [exc |-> "none", value |-> IsCh(self.raw_xpath, 1, "/")]

\* XPath.is_relative: '.' in the first piece (str.split returns at least one).
XPath_is_relative(self) ==
  \E i \in 1..Len(_xpath_structure(self)[1]) : IsCh(_xpath_structure(self)[1], i, ".")

\* XPath.__eq__
XPath_eq(a, b) == a.raw_xpath = b.raw_xpath

\* needle in haystack, for Python strings.
StrIn(needle, haystack) ==
  \E i \in 0..(Len(haystack) - Len(needle)) :
    SubSeq(haystack, i + 1, i + Len(needle)) = needle

\* XPath.is_descendant_of(ancestor)
is_descendant_of(self, ancestor) ==
  StrIn(ancestor.raw_xpath \o <<Ch("/")>>, self.raw_xpath) /\ ~XPath_eq(self, ancestor)

IsLetter(toks, i) ==
  LET \* The characters of the model's texts that the class [a-zA-Z] matches.
      Letters == {"a", "b", "n", "i"}
  IN
  i >= 1 /\ i <= Len(toks) /\ toks[i].k = "c" /\ toks[i].c \in Letters

\* The last position of the run of letters that starts at position i.
RECURSIVE LetterRunEnd(_, _)
LetterRunEnd(toks, i) == IF IsLetter(toks, i + 1) THEN LetterRunEnd(toks, i + 1) ELSE i

\* re.sub(r'[a-zA-Z]+:', '', text)
RECURSIVE SubNamespaces(_)
SubNamespaces(toks) ==
  IF toks = <<>> THEN <<>>
  ELSE IF IsLetter(toks, 1)
  THEN IF IsCh(toks, LetterRunEnd(toks, 1) + 1, ":")
       THEN SubNamespaces(SubSeq(toks, LetterRunEnd(toks, 1) + 2, Len(toks)))
       ELSE SubSeq(toks, 1, LetterRunEnd(toks, 1))
            \o SubNamespaces(SubSeq(toks, LetterRunEnd(toks, 1) + 1, Len(toks)))
  ELSE <<toks[1]>> \o SubNamespaces(Tail(toks))

\* re.sub(r'/@', '/' + attributes, text)
RECURSIVE SubAttributes(_, _)
SubAttributes(toks, attributes) ==
  IF toks = <<>> THEN <<>>
  ELSE IF IsCh(toks, 1, "/") /\ IsCh(toks, 2, "@")
  THEN <<Ch("/")>> \o attributes \o SubAttributes(SubSeq(toks, 3, Len(toks)), attributes)
  ELSE <<toks[1]>> \o SubAttributes(Tail(toks), attributes)

\* The loop of to_json_path over the parsed keys: an integer key <= 0 raises
\* ValueError, every other integer key is lowered by one.
ShiftIndices(structure) ==
  IF \E i \in 1..Len(structure) : structure[i].k = "int" /\ structure[i].i <= 0
  THEN [exc |-> "ValueError", value |-> <<>>]
  ELSE [exc |-> "none",
        value |-> [i \in 1..Len(structure) |->
                     IF structure[i].k = "int" THEN Index(structure[i].i - 1)
                     ELSE structure[i]]]

\* XPath.to_json_path(attributes, with_namespaces)
to_json_path(self, attributes, with_namespaces) ==
  LET \* The return statement of to_json_path; keys is what the loop built or raised.
      to_json_path_return(keys) ==
        IF keys.exc # "none" THEN [exc |-> keys.exc, path |-> NoPath]
        ELSE from_json_path_structure(keys.value)
  IN
  LET \* re.sub(r'/', '.', text)
      SubSeparators(toks) ==
        [i \in 1..Len(toks) |-> IF IsCh(toks, i, "/") THEN Ch(".") ELSE toks[i]]
  IN
  LET \* re.sub(r'^/', '$/', text)
      SubAbsoluteRoot(toks) ==
        IF IsCh(toks, 1, "/") THEN <<Ch("$")>> \o toks ELSE toks
  IN
  LET \* re.sub(r'^\./', '@/', text)
      SubRelativeRoot(toks) ==
        IF IsCh(toks, 1, ".") /\ IsCh(toks, 2, "/") THEN <<Ch("@")>> \o Tail(toks) ELSE toks
  IN
  to_json_path_return(
    ShiftIndices(
      JSONPath(
        SubSeparators(SubAbsoluteRoot(SubRelativeRoot(SubAttributes(
          IF with_namespaces THEN self.raw_xpath ELSE SubNamespaces(self.raw_xpath),
          attributes))))).json_path_structure))

(* ---------------------------- documents -------------------------------- *)
\* JSON values.  A dict is a set of entries [key, val] whose keys are path
\* elements (a name or an integer); a list is a sequence.
JInt(n) == [t |-> "int", n |-> n, s |-> "", d |-> {}, l |-> <<>>]
JBool(b) == [t |-> "bool", n |-> IF b THEN 1 ELSE 0, s |-> "", d |-> {}, l |-> <<>>]
JStr(s) == [t |-> "str", n |-> 0, s |-> s, d |-> {}, l |-> <<>>]
JNone == [t |-> "None", n |-> 0, s |-> "", d |-> {}, l |-> <<>>]
JDict(d) == [t |-> "dict", n |-> 0, s |-> "", d |-> d, l |-> <<>>]
JList(l) == [t |-> "list", n |-> 0, s |-> "", d |-> {}, l |-> l]

HasKey(v, key) == \E e \in v.d : e.key = key
ValueAt(v, key) == (CHOOSE e \in v.d : e.key = key).val
\* dict.update({key: val})
Update(v, key, val) == JDict({e \in v.d : e.key # key} \cup {[key |-> key, val |-> val]})

\* Position in 1..Len of a Python list index, 0 when it is out of range.
ListPos(l, i) ==
  IF i >= 0 THEN (IF i < Len(l) THEN i + 1 ELSE 0)
  ELSE (IF Len(l) + i >= 0 THEN Len(l) + i + 1 ELSE 0)

\* current_item[key]
Subscript(current, key) ==
  IF current.t = "dict"
  THEN IF key.k = "slice" THEN [exc |-> "TypeError", value |-> JNone]
       ELSE IF HasKey(current, key) THEN [exc |-> "none", value |-> ValueAt(current, key)]
       ELSE [exc |-> "KeyError", value |-> JNone]
  ELSE IF current.t = "list"
  THEN IF key.k = "name" THEN [exc |-> "TypeError", value |-> JNone]
       ELSE IF key.k = "int"
       THEN IF ListPos(current.l, key.i) = 0 THEN [exc |-> "IndexError", value |-> JNone]
            ELSE [exc |-> "none", value |-> current.l[ListPos(current.l, key.i)]]
       ELSE [exc |-> "unmodelled", value |-> JNone]
  ELSE IF current.t = "str"
  THEN IF key.k = "name" THEN [exc |-> "TypeError", value |-> JNone]
       ELSE IF key.k = "int"
       THEN IF current.s # "" /\ key.i \in {0, -1} THEN [exc |-> "none", value |-> current]
            ELSE [exc |-> "IndexError", value |-> JNone]
       ELSE [exc |-> "unmodelled", value |-> JNone]
  ELSE [exc |-> "TypeError", value |-> JNone]

IsRootKey(key) == key.k = "name" /\ key.s \in {"$", "@"}

\* path._json_path_structure() as written at json.py:199 and json.py:224:
\* _json_path_structure is a static method of one parameter, so the call
\* through the instance passes no json_path_string and raises TypeError
\* (missing 1 required positional argument) with the message as its only
\* argument.
instance_json_path_structure(path) ==
  [exc |-> "TypeError", value |-> <<>>]

\* An exception: its class, the number of its arguments and the path it
\* carries as its second argument (when it has one).
Raise(exc, argc, at_path) == [exc |-> exc, argc |-> argc, at_path |-> at_path, value |-> JNone]
Return(value) == [exc |-> "none", argc |-> 0, at_path |-> NoPath, value |-> value]

RECURSIVE GetLoop(_, _, _, _)

\* The except clause of the loop; sp is what path.split(key_pos + 1)
\* returned or raised.
get_item_except(e, sp) ==
  IF sp.exc # "none" THEN Raise(sp.exc, 0, NoPath)
  ELSE Raise(e.exc, 2, sp.parts.prefix)

\* The try block of the loop; r is what current_item[key] returned or raised.
get_item_try(path, keys, key_pos, r) ==
  IF r.exc = "none" THEN GetLoop(path, keys, key_pos + 1, r.value)
  ELSE IF r.exc \in {"KeyError", "TypeError"}
  THEN get_item_except(r, JSONPath_split(path, key_pos + 1))
  ELSE Raise(r.exc, 1, NoPath)

\* The loop of get_item_from_json_path from position key_pos (0-based) on.
GetLoop(path, keys, key_pos, current_item) ==
  IF key_pos >= Len(keys) THEN Return(current_item)
  ELSE IF IsRootKey(keys[key_pos + 1])
  THEN GetLoop(path, keys, key_pos + 1, current_item)
  ELSE get_item_try(path, keys, key_pos, Subscript(current_item, keys[key_pos + 1]))

get_item_from_json_path(path, json) ==
  LET keys == instance_json_path_structure(path) IN
  IF keys.exc # "none" THEN Raise(keys.exc, 1, NoPath)
  ELSE GetLoop(path, keys.value, 0, json)

\* The document with the value reached by keys replaced by v: the effect on
\* the document of mutating, in place, the object found along keys.
RECURSIVE SetAt(_, _, _)
SetAt(current, keys, v) ==
  IF keys = <<>> THEN v
  ELSE IF IsRootKey(keys[1]) THEN SetAt(current, Tail(keys), v)
  ELSE IF current.t = "dict"
  THEN Update(current, keys[1], SetAt(ValueAt(current, keys[1]), Tail(keys), v))
  ELSE IF current.t = "list"
  THEN LET p == ListPos(current.l, keys[1].i) IN
       JList([current.l EXCEPT ![p] = SetAt(current.l[p], Tail(keys), v)])
  ELSE v

\* deepcopy(json): an equal value in fresh objects.
deepcopy(json) == json

\* The outcome of write_item_in_path: the exception raised or the document
\* returned (r), and the caller's document as the call leaves it
\* (json_after): every mutation is made on json_copy.
Outcome(r, json) ==
  [exc |-> r.exc, argc |-> r.argc, at_path |-> r.at_path, value |-> r.value,
   json_after |-> json]

RECURSIVE write_item_in_path(_, _, _)

\* From the second try block on; parent_item is what
\* get_item_from_json_path(parent_path, json_copy) returned or raised.
write_in_parent(item, in_path, json, json_copy, parent_path, item_key, parent_item) ==
  LET \* The second recursive call, once the first has returned or raised (created).
      write_after_created(created) ==
        IF created.exc # "none" THEN Outcome(created, json)
        ELSE Outcome(write_item_in_path(item, in_path, created.value), json)
  IN
  IF parent_item.exc \in {"KeyError", "TypeError"}
  THEN IF parent_item.argc < 2 THEN Outcome(Raise("IndexError", 1, NoPath), json)
       ELSE write_after_created(write_item_in_path(JDict({}), parent_item.at_path, json_copy))
  ELSE IF parent_item.exc # "none" THEN Outcome(parent_item, json)
  ELSE IF parent_item.value.t = "dict"
  THEN Outcome(Return(SetAt(json_copy,
                            instance_json_path_structure(parent_path).value,
                            Update(parent_item.value, item_key, item))), json)
  ELSE Outcome(Raise("TypeError", 2, parent_path), json)

\* From the first try block on; item_array is what
\* get_item_from_json_path(in_path, json_copy) returned or raised.
write_in_array(item, in_path, json, json_copy, parent_path, item_key, keys, item_array) ==
  IF item_array.exc = "none" /\ item_array.value.t = "list"
  THEN Outcome(Return(SetAt(json_copy, keys.value,
                            JList(Append(item_array.value.l, item)))), json)
  ELSE IF item_array.exc \notin {"none", "KeyError", "TypeError"}
  THEN Outcome(item_array, json)
  ELSE write_in_parent(item, in_path, json, json_copy, parent_path, item_key,
                       get_item_from_json_path(parent_path, json_copy))

\* From item_key on; structure is what
\* item_relative_path._json_path_structure() returned or raised.
write_at_key(item, in_path, json, json_copy, parent_path, structure) ==
  IF structure.exc # "none" THEN Outcome(Raise(structure.exc, 1, NoPath), json)
  ELSE write_in_array(item, in_path, json, json_copy, parent_path,
                      structure.value[Len(structure.value)],
                      instance_json_path_structure(in_path),
                      get_item_from_json_path(in_path, json_copy))

\* write_item_in_path(item, in_path, json)
write_item_in_path(item, in_path, json) ==
  LET \* From the split on; sp is what in_path.split(-1) returned or raised.
      write_after_split(json_copy, sp) ==
        IF sp.exc # "none" THEN Outcome(Raise(sp.exc, 0, NoPath), json)
        ELSE write_at_key(item, in_path, json, json_copy, sp.parts.prefix,
                          instance_json_path_structure(sp.parts.suffix))
  IN
  write_after_split(deepcopy(json), JSONPath_split(in_path, -1))

(* ----------------------------- mapping --------------------------------- *)
\* A Python float, as float() builds it.
JFloat(n) == [t |-> "float", n |-> n, s |-> "", d |-> {}, l |-> <<>>]

\* The sink kinds mapping.py names (STRING ... INFER): the JSONNodeType of
\* json.py has no such members, the enumeration follows the specification.
JSONNodeType == {"string", "integer", "number", "boolean", "null", "object", "array", "infer"}
XMLNodeType == {"value", "sequence", "attribute", "element"}

\* A parsed source element: tag, text (None or a string), attributes (a set
\* of name/value pairs) and child elements in document order.
Element(tag, text, attrib, children) ==
  [tag |-> tag, text |-> text, attrib |-> attrib, children |-> children]

\* The children with the given tag of every element of a list, in order.
RECURSIVE ChildrenTagged(_, _)
ChildrenTagged(elements, tag) ==
  IF elements = <<>> THEN <<>>
  ELSE SelectSeq(Head(elements).children, LAMBDA c : c.tag = tag)
       \o ChildrenTagged(Tail(elements), tag)

\* The elements a location path of child steps selects from a list of
\* context elements.
RECURSIVE FindAll(_, _)
FindAll(elements, pieces) ==
  IF pieces = <<>> THEN elements
  ELSE FindAll(ChildrenTagged(elements, StrOf(Head(pieces))), Tail(pieces))

\* xml_etree.findall(path): xml_etree is None or holds one element; the paths
\* are '.', './tag' and './tag/tag'.
findall(xml_etree, path) ==
  IF xml_etree = None THEN [exc |-> "AttributeError", value |-> <<>>]
  ELSE [exc |-> "none", value |-> FindAll(xml_etree, Tail(StrSplit(path, "/")))]

\* xml_etree.find(path): the first match, or None.
find(xml_etree, path) ==
  LET FirstOrNone(elements) == IF elements = <<>> THEN None ELSE <<Head(elements)>>
  IN
  IF xml_etree = None THEN [exc |-> "AttributeError", value |-> None]
  ELSE [exc |-> "none",
        value |-> FirstOrNone(FindAll(xml_etree, Tail(StrSplit(path, "/"))))]

\* XPath.is_attribute: the last piece's first character; IndexError when the
\* last piece is empty.
XPath_is_attribute(self) ==
  IF _xpath_structure(self)[Len(_xpath_structure(self))] = <<>>
  THEN [exc |-> "IndexError", value |-> FALSE]
  ELSE [exc |-> "none", value |-> IsCh(_xpath_structure(self)[Len(_xpath_structure(self))], 1, "@")]

\* XPath.attribute_name
XPath_attribute_name(self) ==
  IF XPath_is_attribute(self).exc # "none"
  THEN [exc |-> XPath_is_attribute(self).exc, value |-> <<>>]
  ELSE IF ~XPath_is_attribute(self).value THEN [exc |-> "ValueError", value |-> <<>>]
  ELSE [exc |-> "none", value |-> Tail(_xpath_structure(self)[Len(_xpath_structure(self))])]

\* XPath.parent
XPath_parent(self) ==
  XPath(StrJoin(SubSeq(_xpath_structure(self), 1, Len(_xpath_structure(self)) - 1), "/"))

\* str.strip() and re.sub(r"^\s*$", "", input) on the texts of the model.
strip(s) == IF s = " " THEN "" ELSE s

\* int(input): TypeError for None, ValueError for a text that is no numeral.
int(input) ==
  IF input = None THEN [exc |-> "TypeError", value |-> JNone]
  ELSE IF input[1] = "7" THEN [exc |-> "none", value |-> JInt(7)]
  ELSE [exc |-> "ValueError", value |-> JNone]

\* float(input)
float(input) ==
  IF input = None THEN [exc |-> "TypeError", value |-> JNone]
  ELSE IF input[1] = "7" THEN [exc |-> "none", value |-> JFloat(7)]
  ELSE [exc |-> "ValueError", value |-> JNone]

\* The Python object a source input is: None or a str.
ItemOf(input) == IF input = None THEN JNone ELSE JStr(input[1])

\* infer_json_type(input): mapping.py imports it from json.py, which does not
\* define it; it follows the specification: boolean literal, then numeric
\* (an integral value is an integer), then string; None is null.
infer_json_type(input) ==
  IF input = None THEN "null"
  ELSE IF input[1] \in {"true", "false"} THEN "boolean"
  ELSE IF input[1] = "7" THEN "integer"
  ELSE "string"

\* Transformation.__call__ for the registered transformations:
\* seven is  lambda v: '7' if v == 'x' else v.
TransformationNames == {"seven"}
Transformation_call(name, input) ==
  IF name = "seven" /\ input = JStr("x") THEN JStr("7") ELSE input

\* What a map call did: the exception it raised or the document it returned,
\* and the calls of write_item_in_path made so far, in order.
Raised(e, writes) == [exc |-> e, value |-> JNone, writes |-> writes]
Returned(value, writes) == [exc |-> "none", value |-> value, writes |-> writes]

\* How a map call ends: it raises e, it returns a document without writing,
\* or it returns write_item_in_path(item, JSONPath(self.to_json_node.path), json).
Raises(e, writes) == [exc |-> e, write |-> FALSE, value |-> JNone, writes |-> writes]
Returns(value, writes) == [exc |-> "none", write |-> FALSE, value |-> value, writes |-> writes]
Writes(item, writes) == [exc |-> "none", write |-> TRUE, value |-> item, writes |-> writes]

return_write(self, item, json, writes) ==
  LET \* return write_item_in_path(item, JSONPath(self.to_json_node.path), json),
      \* w being what the call returned or raised.
      write_outcome(w, to_path) ==
        [exc |-> w.exc, value |-> w.value,
         writes |-> Append(writes, [item |-> item, path |-> to_path])]
  IN
  write_outcome(write_item_in_path(item, JSONPath(self.to_json_node.path), json), self.to_json_node.path)

\* The end e of a map call, carried out.
end_map(self, e, json) ==
  IF e.exc # "none" THEN Raised(e.exc, e.writes)
  ELSE IF e.write THEN return_write(self, e.value, json, e.writes)
  ELSE Returned(e.value, e.writes)

\* The integer and number branches: only ValueError is caught (and raised
\* again as ValueError); c is what int(input) or float(input) did.
write_casted(c, writes) ==
  IF c.exc # "none" THEN Raises(c.exc, writes) ELSE Writes(c.value, writes)

\* The infer branch, kind being what infer_json_type(input) returned.
map_inferred(kind, input, writes) ==
  IF kind = "boolean"
  THEN Writes(IF input = Some("true") THEN JBool(TRUE)
              ELSE IF input = Some("false") THEN JBool(FALSE)
              ELSE JBool(input # None /\ input # Some("")), writes)
  ELSE IF kind = "number" THEN write_casted(float(input), writes)
  ELSE IF kind = "integer" THEN write_casted(int(input), writes)
  ELSE IF kind = "string" THEN Writes(ItemOf(input), writes)
  ELSE IF kind = "null" THEN Writes(JNone, writes)
  ELSE IF kind \in {"array", "object"} THEN Writes(ItemOf(input), writes)
  ELSE Raises("ValueError", writes)

\* XMLNodeToJSONNode._map_input(input, json, ignore_empty), up to its end:
\* a sink kind none of the branches names falls off the function (None).
_map_input(self, input, json, ignore_empty, writes) ==
  LET sub_blank(s) == IF s \in {"", " "} THEN "" ELSE s
  IN
  IF ignore_empty /\ (input = None \/ sub_blank(input[1]) = "")
  THEN Returns(json, writes)
  ELSE IF self.to_json_node.node_type = "string" THEN Writes(ItemOf(input), writes)
  ELSE IF self.to_json_node.node_type = "integer" THEN write_casted(int(input), writes)
  ELSE IF self.to_json_node.node_type = "number" THEN write_casted(float(input), writes)
  ELSE IF self.to_json_node.node_type = "boolean"
  THEN IF input = Some("true") THEN Writes(JBool(TRUE), writes)
       ELSE IF input = Some("false") THEN Writes(JBool(FALSE), writes)
       ELSE Raises("ValueError", writes)
  ELSE IF self.to_json_node.node_type = "null" THEN Writes(JNone, writes)
  ELSE IF self.to_json_node.node_type = "infer"
  THEN map_inferred(infer_json_type(input), input, writes)
  ELSE Returns(JNone, writes)

\* XMLNode / JSONNode and the two NodeMap classes; transform is a registered
\* name or "" for None.
Node(path, node_type) == [path |-> path, node_type |-> node_type]
XMLNodeToJSONNode(from_xml_node, to_json_node, transform, item_mappings) ==
  [source |-> "xml", from_node |-> from_xml_node, to_json_node |-> to_json_node,
   transform |-> transform, item_mappings |-> item_mappings]
JSONNodeToJSONNode(from_json_node, to_json_node, transform, item_mappings) ==
  [source |-> "json", from_node |-> from_json_node, to_json_node |-> to_json_node,
   transform |-> transform, item_mappings |-> item_mappings]

\* parent_element.attrib[attribute_name], None on KeyError / AttributeError.
attrib_lookup(parent_element, attribute_name) ==
  IF parent_element = None THEN None
  ELSE IF \E a \in parent_element[1].attrib : a.name = attribute_name
  THEN Some((CHOOSE a \in parent_element[1].attrib : a.name = attribute_name).value)
  ELSE None

\* From the namespace test on; name is what attribute_name() returned or
\* raised.  xml_namespaces is None, so a prefixed name raises TypeError.
get_attribute_named(self, xml_etree, name) ==
  IF name.exc # "none" THEN [exc |-> name.exc, value |-> None]
  ELSE IF IndexOf(name.value, ":") # 0 THEN [exc |-> "TypeError", value |-> None]
  ELSE IF find(xml_etree, XPath_parent(XPath(self.from_node.path)).raw_xpath).exc # "none"
  THEN [exc |-> "AttributeError", value |-> None]
  ELSE [exc |-> "none",
        value |-> attrib_lookup(find(xml_etree, XPath_parent(XPath(self.from_node.path)).raw_xpath).value,
                                StrOf(name.value))]

\* XMLNodeToJSONNode._get_attribute(xml_etree)
_get_attribute(self, xml_etree) ==
  get_attribute_named(self, xml_etree, XPath_attribute_name(XPath(self.from_node.path)))

\* XMLNodeToJSONNode._get_element_value(xml_etree): the stripped text, None
\* when the element or its text is missing.
_get_element_value(self, xml_etree) ==
  IF find(xml_etree, self.from_node.path).exc # "none"
  THEN [exc |-> "AttributeError", value |-> None]
  ELSE IF find(xml_etree, self.from_node.path).value = None
  THEN [exc |-> "none", value |-> None]
  ELSE IF find(xml_etree, self.from_node.path).value[1].text = None
  THEN [exc |-> "none", value |-> None]
  ELSE [exc |-> "none",
        value |-> Some(strip(find(xml_etree, self.from_node.path).value[1].text[1]))]

RECURSIVE XMLNodeToJSONNode_map(_, _, _, _, _)
RECURSIVE map_item_mappings(_, _, _, _, _)
RECURSIVE map_elements(_, _, _, _, _)

\* for mapping in self.item_mappings: item = mapping.map(element, item, ...)
\* r being what the call for the first mapping returned or raised.
map_item_mappings_next(rest, element, ignore_empty, r) ==
  IF r.exc # "none" THEN r
  ELSE map_item_mappings(rest, element, r.value, ignore_empty, r.writes)

map_item_mappings(mappings, element, item, ignore_empty, writes) ==
  IF mappings = <<>> THEN Returned(item, writes)
  ELSE map_item_mappings_next(Tail(mappings), element, ignore_empty,
         XMLNodeToJSONNode_map(Head(mappings), element, item, ignore_empty, writes))

\* for element in input_sequence: item = None; ...; items.append(item)
\* r being what the item mappings of the first element returned or raised.
map_elements_next(self, rest, items, ignore_empty, r) ==
  IF r.exc # "none" THEN r
  ELSE map_elements(self, rest, Append(items, r.value), ignore_empty, r.writes)

map_elements(self, input_sequence, items, ignore_empty, writes) ==
  IF input_sequence = <<>> THEN Returned(JList(items), writes)
  ELSE map_elements_next(self, Tail(input_sequence), items, ignore_empty,
         map_item_mappings(self.item_mappings, <<Head(input_sequence)>>, JNone,
                           ignore_empty, writes))

\* return write_item_in_path(items, ...) / write_item_in_path(item, ...), r
\* being what building the items or the item returned or raised.
write_built(r) ==
  IF r.exc # "none" THEN Raises(r.exc, r.writes) ELSE Writes(r.value, r.writes)

\* The sequence branch, input_sequence being what findall returned or raised.
map_sequence(self, input_sequence, json, ignore_empty, writes) ==
  IF input_sequence.exc # "none" THEN Raises(input_sequence.exc, writes)
  ELSE IF input_sequence.value = <<>> /\ ignore_empty THEN Returns(json, writes)
  ELSE IF self.to_json_node.node_type = "array"
  THEN write_built(map_elements(self, input_sequence.value, <<>>, ignore_empty, writes))
  ELSE Raises("ValueError", writes)

\* The element branch, xml_element being what find returned or raised.
map_element(self, xml_element, ignore_empty, writes) ==
  IF xml_element.exc # "none" THEN Raises(xml_element.exc, writes)
  ELSE write_built(map_item_mappings(self.item_mappings, xml_element.value,
                                     JDict({}), ignore_empty, writes))

\* The tail of map for a value or an attribute, input being what
\* _get_attribute or _get_element_value returned or raised.
map_scalar(self, input, json, ignore_empty, writes) ==
  LET \* not input, for None or a str.
      NotInput(found) == found = None \/ found = Some("")
  IN
  IF input.exc # "none" THEN Raises(input.exc, writes)
  ELSE IF NotInput(input.value) /\ ignore_empty THEN Returns(json, writes)
  ELSE _map_input(self, input.value, json, ignore_empty, writes)

\* The branches of map on the source kind, up to the end of the call.
map_branches(self, xml_etree, json, ignore_empty, writes) ==
  IF self.from_node.node_type = "attribute"
  THEN map_scalar(self, _get_attribute(self, xml_etree), json, ignore_empty, writes)
  ELSE IF self.from_node.node_type = "value"
  THEN map_scalar(self, _get_element_value(self, xml_etree), json, ignore_empty, writes)
  ELSE IF self.from_node.node_type = "sequence"
  THEN IF self.item_mappings = <<>> THEN Raises("ValueError", writes)
       ELSE map_sequence(self, findall(xml_etree, self.from_node.path), json, ignore_empty, writes)
  ELSE IF self.from_node.node_type = "element"
  THEN map_element(self, find(xml_etree, self.from_node.path), ignore_empty, writes)
  ELSE Raises("ValueError", writes)

\* XMLNodeToJSONNode.map(xml_etree, json, ignore_empty=ignore_empty)
XMLNodeToJSONNode_map(self, xml_etree, json, ignore_empty, writes) ==
  end_map(self, map_branches(self, xml_etree, json, ignore_empty, writes), json)

\* not input, for a Python object.
NotItem(v) ==
  v \in {JNone, JStr(""), JInt(0), JFloat(0), JBool(FALSE), JDict({}), JList(<<>>)}

\* From the transform on, input being what _get_attribute returned or raised.
json_map_transform(self, input, output_json, ignore_empty, writes) ==
  LET \* The tail of JSONNodeToJSONNode.map, transformed being the transformed input.
      json_map_input(transformed) ==
        IF NotItem(transformed) /\ ignore_empty THEN Returned(output_json, writes)
        ELSE return_write(self, transformed, output_json, writes)
  IN
  IF input.exc # "none" THEN Raised(input.exc, writes)
  ELSE json_map_input(IF self.transform # "" THEN Transformation_call(self.transform, input.value)
                      ELSE input.value)

\* JSONNodeToJSONNode.map(input_json, output_json, ignore_empty)
JSONNodeToJSONNode_map(self, input_json, output_json, ignore_empty, writes) ==
  LET \* JSONNodeToJSONNode._get_attribute(json): None on KeyError, TypeError and
      \* IndexError; r is what get_item_from_json_path returned or raised.
      json_get_attribute(r) ==
        IF r.exc \in {"KeyError", "TypeError", "IndexError"} THEN [exc |-> "none", value |-> JNone]
        ELSE [exc |-> r.exc, value |-> r.value]
  IN
  json_map_transform(self,
    json_get_attribute(get_item_from_json_path(JSONPath(self.from_node.path), input_json)),
    output_json, ignore_empty, writes)

\* infer_path_type(path): the family of the path, ValueError for the empty
\* text and for a text that starts like neither family.
infer_path_type(path) ==
  IF path = <<>> THEN [exc |-> "ValueError", value |-> ""]
  ELSE IF IsCh(path, 1, "$") \/ IsCh(path, 1, "@") THEN [exc |-> "none", value |-> "JSONPath"]
  ELSE IF IsCh(path, 1, ".") \/ IsCh(path, 1, "/") THEN [exc |-> "none", value |-> "XPath"]
  ELSE [exc |-> "ValueError", value |-> ""]

\* A node map of a mapping document: 'itemMappings' and 'transformation'
\* are <<>> and "" when the key is absent.
MapEntry(from, to, itemMappings, transformation) ==
  [from |-> from, to |-> to, itemMappings |-> itemMappings, transformation |-> transformation]
NodeRef(path, type) == [path |-> path, type |-> type]

RECURSIVE parse_node_map(_, _)
RECURSIVE parse_item_mappings(_, _)

\* [parse_node_map(item_mapping, transformations) for item_mapping in ...]
\* first being what the first call returned or raised, rest what the others did.
parse_item_mappings_cons(first, rest) ==
  IF rest.exc # "none" THEN rest
  ELSE [exc |-> "none", value |-> first.value \o rest.value]

parse_item_mappings_next(first, unparsed, transformations) ==
  IF first.exc # "none" THEN [exc |-> first.exc, value |-> <<>>]
  ELSE parse_item_mappings_cons(first, parse_item_mappings(unparsed, transformations))

parse_item_mappings(unparsed_item_mappings, transformations) ==
  IF unparsed_item_mappings = <<>> THEN [exc |-> "none", value |-> <<>>]
  ELSE parse_item_mappings_next(parse_node_map(Head(unparsed_item_mappings), transformations),
                                Tail(unparsed_item_mappings), transformations)

\* parse_node_map with the transformation looked up lazily: an unknown name
\* is kept as no transformation.
parse_transformation_unresolved(node_map, transformations, from_path_type, item_mappings) ==
  IF item_mappings.exc # "none" THEN [exc |-> item_mappings.exc, value |-> <<>>]
  ELSE [exc |-> "none",
        value |-> <<[source |-> IF from_path_type = "XPath" THEN "xml" ELSE "json",
                     from_node |-> Node(node_map.from.path, node_map.from.type),
                     to_json_node |-> Node(node_map.to.path, node_map.to.type),
                     transform |-> IF node_map.transformation \in transformations
                                   THEN node_map.transformation ELSE "",
                     item_mappings |-> item_mappings.value]>>]

\* From the transformation lookup on, item_mappings being what parsing
\* 'itemMappings' returned or raised.
parse_transformation(node_map, transformations, from_path_type, item_mappings) ==
  IF item_mappings.exc # "none" THEN [exc |-> item_mappings.exc, value |-> <<>>]
  ELSE IF node_map.transformation # "" /\ node_map.transformation \notin transformations
  THEN [exc |-> "ValueError", value |-> <<>>]
  ELSE [exc |-> "none",
        value |-> <<[source |-> IF from_path_type = "XPath" THEN "xml" ELSE "json",
                     from_node |-> Node(node_map.from.path, node_map.from.type),
                     to_json_node |-> Node(node_map.to.path, node_map.to.type),
                     transform |-> node_map.transformation,
                     item_mappings |-> item_mappings.value]>>]

\* From the node constructors on, from_path_type being what infer_path_type
\* returned or raised; the enumerations raise ValueError for an unknown type.
parse_nodes(node_map, transformations, from_path_type) ==
  IF from_path_type.exc # "none" THEN [exc |-> from_path_type.exc, value |-> <<>>]
  ELSE IF from_path_type.value = "XPath" /\ node_map.from.type \notin XMLNodeType
  THEN [exc |-> "ValueError", value |-> <<>>]
  ELSE IF from_path_type.value = "JSONPath" /\ node_map.from.type \notin JSONNodeType
  THEN [exc |-> "ValueError", value |-> <<>>]
  ELSE IF node_map.to.type \notin JSONNodeType THEN [exc |-> "ValueError", value |-> <<>>]
  ELSE parse_transformation(node_map, transformations, from_path_type.value,
                            parse_item_mappings(node_map.itemMappings, transformations))

\* parse_node_map(node_map, transformations): the NodeMap built (a list of
\* one) or the exception raised.
parse_node_map(node_map, transformations) ==
  parse_nodes(node_map, transformations, infer_path_type(node_map.from.path))

\* parse(jsonize_map, transformations)
parse(jsonize_map, transformations) == parse_item_mappings(jsonize_map, transformations)

\* What a job did: the exception raised or the document returned, whether
\* the source document was parsed, how many top-level maps were applied,
\* and the calls of write_item_in_path made.
JobOutcome(e, value, parsed, applied, writes) ==
  [exc |-> e, value |-> value, parsed |-> parsed, applied |-> applied, writes |-> writes]
NoJob == [exc |-> "none", value |-> JNone, parsed |-> FALSE, applied |-> 0, writes |-> <<>>]

\* mapping.map(xml_etree, result, xml_namespaces=..., ignore_empty=...):
\* JSONNodeToJSONNode.map takes no xml_namespaces.
job_map(mapping, xml_etree, result, ignore_empty, writes) ==
  IF mapping.source = "xml"
  THEN XMLNodeToJSONNode_map(mapping, xml_etree, result, ignore_empty, writes)
  ELSE Raised("TypeError", writes)

RECURSIVE job_loop(_, _, _, _, _, _)

\* The loop that goes on with the next map when one raises.
job_loop_swallowing(rest, xml_etree, result, ignore_empty, applied, r) ==
  IF r.exc # "none" THEN job_loop(rest, xml_etree, result, ignore_empty, applied, r.writes)
  ELSE job_loop(rest, xml_etree, r.value, ignore_empty, applied, r.writes)

\* for mapping in jsonize_map: result = mapping.map(...), r being what the
\* call for the first map returned or raised.
job_loop_next(rest, xml_etree, result, ignore_empty, applied, r) ==
  IF r.exc # "none" THEN JobOutcome(r.exc, JNone, TRUE, applied, r.writes)
  ELSE job_loop(rest, xml_etree, r.value, ignore_empty, applied, r.writes)

job_loop(jsonize_map, xml_etree, result, ignore_empty, applied, writes) ==
  IF jsonize_map = <<>> THEN JobOutcome("none", result, TRUE, applied, writes)
  ELSE job_loop_next(Tail(jsonize_map), xml_etree, result, ignore_empty, applied + 1,
                     job_map(Head(jsonize_map), xml_etree, result, ignore_empty, writes))

\* From result = json on, parsed_map being the maps handed in or what
\* parse(load(jsonize_map_file), transformations) returned or raised;
\* xml_document stands for what xml_parse reads from it.
job_parsed(xml_document, json, ignore_empty, parsed_map) ==
  IF parsed_map.exc # "none" THEN JobOutcome(parsed_map.exc, JNone, FALSE, 0, <<>>)
  ELSE job_loop(parsed_map.value, xml_document, json, ignore_empty, 0, <<>>)

\* xml_document_to_dict(xml_document, jsonize_map_document, jsonize_map,
\*                      json=json, transformations=..., ignore_empty=...);
\* json is None or holds a document, the maps are None or hold a list.
xml_document_to_dict(xml_document, jsonize_map_document, jsonize_map, json, transformations, ignore_empty) ==
  IF jsonize_map # None /\ jsonize_map # Some(<<>>)
  THEN job_parsed(xml_document, IF json = None \/ NotItem(json[1]) THEN JDict({}) ELSE json[1],
                  ignore_empty, [exc |-> "none", value |-> jsonize_map[1]])
  ELSE IF jsonize_map_document = None THEN JobOutcome("ValueError", JNone, FALSE, 0, <<>>)
  ELSE job_parsed(xml_document, IF json = None \/ NotItem(json[1]) THEN JDict({}) ELSE json[1],
                  ignore_empty, parse(jsonize_map_document[1], transformations))

(* ----------------------- in-place path operations ----------------------- *)
\* What a method with an in_place flag does: the exception it raises, the
\* receiver after the call and what it returns (None or an XPath object).
Did(e, self, returned) == [exc |-> e, self |-> self, returned |-> returned]

\* re.sub(r'^{}'.format(re.escape(str(ancestor))), '.', self.raw_xpath)
SubPrefix(prefix, raw) ==
  IF Len(prefix) <= Len(raw) /\ SubSeq(raw, 1, Len(prefix)) = prefix
  THEN <<Ch(".")>> \o SubSeq(raw, Len(prefix) + 1, Len(raw))
  ELSE raw

\* relative_to that updates the receiver whatever in_place is.
XPath_relative_to_always_updating(self, ancestor, in_place) ==
  LET xpath == SubPrefix(ancestor.raw_xpath, self.raw_xpath) IN
  IF ~in_place THEN Did("none", XPath(xpath), Some(XPath(xpath)))
  ELSE Did("none", [self EXCEPT !.raw_xpath = xpath], None)

\* XPath.relative_to(ancestor, in_place)
XPath_relative_to(self, ancestor, in_place) ==
  LET xpath == SubPrefix(ancestor.raw_xpath, self.raw_xpath) IN
  IF ~in_place THEN Did("none", self, Some(XPath(xpath)))
  ELSE Did("none", [self EXCEPT !.raw_xpath = xpath], None)

\* re.sub(r'\[[0-9]+\]', '', raw): every bracketed run of digits is dropped;
\* a negative number is no run of digits.
RECURSIVE SubIndices(_)
SubIndices(raw) ==
  IF raw = <<>> THEN <<>>
  ELSE IF IsCh(raw, 1, "[") /\ IsNum(raw, 2) /\ raw[2].n >= 0 /\ IsCh(raw, 3, "]")
  THEN SubIndices(SubSeq(raw, 4, Len(raw)))
  ELSE <<raw[1]>> \o SubIndices(Tail(raw))

\* XPath.remove_indices(in_place)
remove_indices(self, in_place) ==
  LET xpath == SubIndices(self.raw_xpath) IN
  IF ~in_place THEN Did("none", self, Some(XPath(xpath)))
  ELSE Did("none", [self EXCEPT !.raw_xpath = xpath], None)

\* get_short_namespace(full_ns, xml_namespaces): the first key of the table,
\* a list of <<short, full>> pairs in the dictionary's order, whose value is
\* full_ns; KeyError when there is none. The table is only read.
get_short_namespace(full_ns, xml_namespaces) ==
  IF \E i \in 1..Len(xml_namespaces) : xml_namespaces[i][2] = full_ns
  THEN [exc |-> "none",
        value |-> xml_namespaces[CHOOSE i \in 1..Len(xml_namespaces) :
                                   /\ xml_namespaces[i][2] = full_ns
                                   /\ \A j \in 1..(i - 1) : xml_namespaces[j][2] # full_ns][1]]
  ELSE [exc |-> "KeyError", value |-> ""]

\* re.sub(r'\{([^\}]+)\}', lambda x: get_short_namespace(x.group(1), ...) + ':', raw):
\* each '{', one or more characters other than '}', '}' is replaced from
\* left to right; the first lookup that raises ends the substitution.
RECURSIVE SubFullNamespaces(_, _)
SubFullNamespaces(raw, xml_namespaces) ==
  IF raw = <<>> THEN [exc |-> "none", text |-> <<>>]
  ELSE
    LET close == IndexOf(raw, "}")
        matched == IsCh(raw, 1, "{") /\ close > 2
        short == get_short_namespace(StrOf(SubSeq(raw, 2, close - 1)), xml_namespaces)
        rest == SubFullNamespaces(SubSeq(raw, IF matched THEN close + 1 ELSE 2, Len(raw)),
                                  xml_namespaces)
    IN IF matched /\ short.exc # "none" THEN [exc |-> short.exc, text |-> <<>>]
       ELSE IF rest.exc # "none" THEN rest
       ELSE [exc |-> "none",
             text |-> (IF matched THEN <<Ch(short.value), Ch(":")>> ELSE <<raw[1]>>) \o rest.text]

\* XPath.shorten_namespaces(xml_namespaces, in_place): with in_place it
\* returns the receiver itself.
shorten_namespaces(self, xml_namespaces, in_place) ==
  LET xpath == SubFullNamespaces(self.raw_xpath, xml_namespaces) IN
  IF xpath.exc # "none" THEN Did(xpath.exc, self, None)
  ELSE IF ~in_place THEN Did("none", self, Some(XPath(xpath.text)))
  ELSE Did("none", [self EXCEPT !.raw_xpath = xpath.text],
           Some([self EXCEPT !.raw_xpath = xpath.text]))

(* ----------------------------- inference ------------------------------- *)
\* XMLNode(xpath, node_type).  origin is history, not a field of the class:
\* the root-relative location the node was first created with, carried
\* unchanged through relative_to.
XMLNode(xpath, node_type, origin) ==
  [path |-> XPath(xpath), node_type |-> node_type, class |-> "XMLNode", sub_nodes |-> <<>>,
   origin |-> origin]

RECURSIVE XMLNode_relative_to(_, _)
RECURSIVE relative_sub_nodes(_, _)

\* XMLSequenceNode(xpath, sub_nodes): the sub nodes are made relative to the
\* new node.
XMLSequenceNode(xpath, sub_nodes, origin) ==
  [path |-> XPath(xpath), node_type |-> "sequence", class |-> "XMLSequenceNode",
   sub_nodes |-> relative_sub_nodes(sub_nodes, [path |-> XPath(xpath)]), origin |-> origin]

\* XMLNode.relative_to / XMLSequenceNode.relative_to with in_place=False: a
\* new object of the receiver's class, built by its constructor.
XMLNode_relative_to(self, ancestor) ==
  LET xpath == XPath_relative_to(self.path, ancestor.path, FALSE).returned[1].raw_xpath IN
  IF self.class = "XMLSequenceNode" THEN XMLSequenceNode(xpath, self.sub_nodes, self.origin)
  ELSE XMLNode(xpath, self.node_type, self.origin)

\* [node.relative_to(self, in_place=False) for node in sub_nodes]
relative_sub_nodes(sub_nodes, self) ==
  IF sub_nodes = <<>> THEN <<>>
  ELSE <<XMLNode_relative_to(Head(sub_nodes), self)>> \o relative_sub_nodes(Tail(sub_nodes), self)

\* XMLNode.is_descendant_of(ancestor)
XMLNode_is_descendant_of(self, ancestor) == is_descendant_of(self.path, ancestor.path)

\* is_leaf that takes the node itself for one of its descendants.
XMLNode_is_leaf_counting_itself(self, tree) ==
  IF self.node_type = "attribute" THEN TRUE
  ELSE \A tree_node \in tree :
         tree_node.node_type # "attribute"
         => ~(XMLNode_is_descendant_of(tree_node, self) \/ tree_node.path = self.path)

\* XMLNode.is_leaf(tree), tree being the set of the nodes of the iterable.
XMLNode_is_leaf(self, tree) ==
  IF self.node_type = "attribute" THEN TRUE
  ELSE \A tree_node \in tree :
         tree_node.node_type # "attribute" => ~XMLNode_is_descendant_of(tree_node, self)

Range(s) == {s[i] : i \in DOMAIN s}

\* The test of build_sequence_tree that takes every pending sequence node.
is_deepest_whatever_descends(node, sequence_nodes) == TRUE

\* if node.is_leaf(sequence_nodes)
is_deepest(node, sequence_nodes) == XMLNode_is_leaf(node, Range(sequence_nodes))

\* The XMLSequenceNode objects of one invocation, for the sequence nodes
\* that are leaves among all of sequence_nodes, each with the leaves that
\* descend from it.
RECURSIVE deepest_sequences(_, _, _)
deepest_sequences(nodes, sequence_nodes, leaf_nodes) ==
  IF nodes = <<>> THEN <<>>
  ELSE (IF is_deepest(Head(nodes), sequence_nodes)
        THEN <<XMLSequenceNode(Head(nodes).path.raw_xpath,
                               SelectSeq(leaf_nodes,
                                         LAMBDA leaf : XMLNode_is_descendant_of(leaf, Head(nodes))),
                               Head(nodes).origin)>>
        ELSE <<>>)
       \o deepest_sequences(Tail(nodes), sequence_nodes, leaf_nodes)

\* One invocation of build_sequence_tree(sequence_nodes, leaf_nodes): it
\* returns its arguments when sequence_nodes is empty, and else calls itself
\* with the trimmed lists.
build_sequence_tree(sequence_nodes, leaf_nodes) ==
  IF sequence_nodes = <<>>
  THEN [returns |-> TRUE, sequence_nodes |-> sequence_nodes, leaf_nodes |-> leaf_nodes]
  ELSE [returns |-> FALSE,
        sequence_nodes |->
          SelectSeq(sequence_nodes,
                    LAMBDA node : ~is_deepest(node, sequence_nodes)),
        leaf_nodes |->
          SelectSeq(leaf_nodes,
                    LAMBDA leaf : ~\E i \in 1..Len(sequence_nodes) :
                                     /\ is_deepest(sequence_nodes[i], sequence_nodes)
                                     /\ XMLNode_is_descendant_of(leaf, sequence_nodes[i]))
          \o deepest_sequences(sequence_nodes, sequence_nodes, leaf_nodes)]

\* The characters of an element name.
TagText(tag) ==
  IF tag = "ab" THEN <<Ch("a"), Ch("b")>>
  ELSE IF tag = "c." THEN <<Ch("c"), Ch(".")>>
  ELSE <<Ch(tag)>>

\* tree.getpath(element) for the child at position i of an element whose
\* path is parent_path: the tag, with a 1-based position among the siblings
\* of the same tag when there are several.
getpath(parent_path, children, i) ==
  LET same == {j \in 1..Len(children) : children[j].tag = children[i].tag} IN
  parent_path \o <<Ch("/")>> \o TagText(children[i].tag)
  \o (IF Cardinality(same) > 1
      THEN <<Ch("["), Nm(Cardinality({j \in same : j <= i})), Ch("]")>> ELSE <<>>)

\* generate_node_xpaths(root): for every element below the root, in document
\* order, its path and then the paths of its attributes (xml_namespaces is
\* None and the names carry no namespace).
RECURSIVE generate_node_xpaths_from(_, _, _)
generate_node_xpaths_from(parent_path, children, i) ==
  LET \* The attribute paths of an element (the model's elements have at most one
      \* attribute).
      attribs(element_path, element) ==
        IF element.attrib = {} THEN <<>>
        ELSE <<element_path \o <<Ch("/"), Ch("@")>>
               \o TextOf((CHOOSE a \in element.attrib : TRUE).name)>>
  IN
  IF i > Len(children) THEN <<>>
  ELSE <<getpath(parent_path, children, i)>>
       \o attribs(getpath(parent_path, children, i), children[i])
       \o generate_node_xpaths_from(getpath(parent_path, children, i), children[i].children, 1)
       \o generate_node_xpaths_from(parent_path, children, i + 1)
generate_node_xpaths(tree) ==
  generate_node_xpaths_from(<<Ch("/")>> \o TagText(tree[1].tag), tree[1].children, 1)

\* XPath._infer_node_type(infer_sequence)
_infer_node_type(self, infer_sequence) ==
  LET \* re.search(r'\[[0-9]+\]', piece)
      HasIndexIn(piece) ==
        \E i \in 1..Len(piece) :
          IsCh(piece, i, "[") /\ IsNum(piece, i + 1) /\ piece[i + 1].n >= 0 /\ IsCh(piece, i + 2, "]")
  IN
  LET last == _xpath_structure(self)[Len(_xpath_structure(self))] IN
  IF IndexOf(last, "@") # 0 THEN "attribute"
  ELSE IF HasIndexIn(last) /\ infer_sequence THEN "sequence"
  ELSE "value"

\* xml_node_from_xpath(xpath, root_xpath, clean_sequence_index=True)
xml_node_from_xpath(xpath, root_xpath) ==
  LET relative_xpath ==
        remove_indices(XPath_relative_to(xpath, root_xpath, FALSE).returned[1], FALSE).returned[1]
  IN XMLNode(relative_xpath.raw_xpath, _infer_node_type(xpath, FALSE), relative_xpath.raw_xpath)

\* The elements of a list without repetitions, each at its first position,
\* and a list backwards.
RECURSIVE Distinct(_)
Distinct(l) ==
  IF l = <<>> THEN <<>>
  ELSE LET d == Distinct(SubSeq(l, 1, Len(l) - 1)) IN
       IF l[Len(l)] \in Range(d) THEN d ELSE Append(d, l[Len(l)])
Reversed(l) == [i \in 1..Len(l) |-> l[Len(l) + 1 - i]]

\* build_node_tree(tree) up to its call of build_sequence_tree: the lists
\* sequences and leaves.  all_nodes and sequence_node_xpaths are sets, whose
\* iteration order Python leaves open: the lists are in document order or,
\* when backwards is set, in the reverse of it.
build_node_tree(tree, backwards) ==
  LET \* node_xpath.remove_indices(in_place=True); node_xpath.relative_to(root_xpath, in_place=True)
      sequence_node_xpath(node_xpath, root_xpath) ==
        XPath_relative_to(remove_indices(node_xpath, TRUE).self, root_xpath, TRUE).self
  IN
  LET root_xpath == XPath(<<Ch("/")>> \o TagText(tree[1].tag))
      xpaths == generate_node_xpaths(tree)
      all_nodes == Distinct([i \in 1..Len(xpaths) |->
                               xml_node_from_xpath(XPath(xpaths[i]), root_xpath)])
      indexed == SelectSeq(xpaths, LAMBDA x : _infer_node_type(XPath(x), TRUE) = "sequence")
      sequence_node_xpaths ==
        Distinct([i \in 1..Len(indexed) |-> sequence_node_xpath(XPath(indexed[i]), root_xpath)])
      leaves == SelectSeq(all_nodes,
                          LAMBDA node : XMLNode_is_leaf(node, Range(all_nodes))
                                        /\ node.node_type # "sequence")
      sequences == [i \in 1..Len(sequence_node_xpaths) |->
                      XMLNode(sequence_node_xpaths[i].raw_xpath, "sequence",
                              sequence_node_xpaths[i].raw_xpath)]
  IN [sequences |-> IF backwards THEN Reversed(sequences) ELSE sequences,
      leaves |-> IF backwards THEN Reversed(leaves) ELSE leaves]

\* XMLNode.to_jsonize(values, attributes, with_namespaces)
XMLNode_to_jsonize(self, values, attributes, with_namespaces) ==
  LET \* The 'to' path of a leaf: str(to_json_path(...)), with '.' + values after
      \* it for a value node when values is not empty; json_path is what
      \* to_json_path returned or raised.
      leaf_to_path(json_path) ==
        IF json_path.exc # "none" THEN [exc |-> json_path.exc, value |-> <<>>]
        ELSE [exc |-> "none",
              value |-> json_path.path.raw_json_path
                        \o (IF self.node_type = "value" /\ values # "" THEN <<Ch("."), Ch(values)>>
                            ELSE <<>>)]
  IN
  LET to_path == leaf_to_path(to_json_path(self.path, attributes, with_namespaces)) IN
  IF to_path.exc # "none" THEN [exc |-> to_path.exc, value |-> <<>>]
  ELSE [exc |-> "none",
        value |-> <<MapEntry(NodeRef(self.path.raw_xpath, self.node_type),
                             NodeRef(to_path.value, "infer"), <<>>, "")>>]

RECURSIVE to_jsonize(_, _, _, _)
RECURSIVE nodes_to_jsonize(_, _, _, _)

\* XMLSequenceNode.to_jsonize, json_path being what to_json_path returned or
\* raised and item_mappings what the sub nodes' to_jsonize did.
XMLSequenceNode_to_jsonize(self, json_path, item_mappings, values) ==
  LET \* The item map of a sequence without sub nodes: the value of each element.
      default_item_mappings ==
        <<MapEntry(NodeRef(<<Ch(".")>>, "value"),
                   NodeRef(<<Ch("@")>> \o (IF values # "" THEN <<Ch("."), Ch(values)>> ELSE <<>>), "infer"),
                   <<>>, "")>>
  IN
  IF json_path.exc # "none" THEN [exc |-> json_path.exc, value |-> <<>>]
  ELSE IF item_mappings.exc # "none" THEN item_mappings
  ELSE [exc |-> "none",
        value |-> <<MapEntry(NodeRef(self.path.raw_xpath, self.node_type),
                             NodeRef(json_path.path.raw_json_path, "array"),
                             IF self.sub_nodes # <<>> THEN item_mappings.value
                             ELSE default_item_mappings, "")>>]

\* node.to_jsonize(...) of a node of either class: a list of one node map,
\* or the exception raised.
to_jsonize(self, values, attributes, with_namespaces) ==
  IF self.class = "XMLSequenceNode"
  THEN XMLSequenceNode_to_jsonize(self, to_json_path(self.path, attributes, with_namespaces),
                                  nodes_to_jsonize(self.sub_nodes, values, attributes, with_namespaces),
                                  values)
  ELSE XMLNode_to_jsonize(self, values, attributes, with_namespaces)

\* [node.to_jsonize(...) for node in nodes]: XMLNodeTree.to_jsonize and the
\* itemMappings of a sequence.
nodes_to_jsonize(nodes, values, attributes, with_namespaces) ==
  LET \* The list comprehension over nodes: the first exception raised ends it.
      jsonize_cons(first, rest) ==
        IF first.exc # "none" THEN first
        ELSE IF rest.exc # "none" THEN rest
        ELSE [exc |-> "none", value |-> first.value \o rest.value]
  IN
  IF nodes = <<>> THEN [exc |-> "none", value |-> <<>>]
  ELSE jsonize_cons(to_jsonize(Head(nodes), values, attributes, with_namespaces),
                    nodes_to_jsonize(Tail(nodes), values, attributes, with_namespaces))

\* infer_jsonize_map(xml_document) with its defaults (values 'value', no
\* attribute tag, namespaces kept, no output file), node_tree being the tree
\* build_node_tree returned.
infer_jsonize_map(node_tree) == nodes_to_jsonize(node_tree, "value", <<>>, TRUE)

\* Running the inferred map on the document it was inferred from:
\* xml_document_to_dict(xml_document, jsonize_map_document=inferred), where
\* the inference raised nothing.
run_inferred(xml_document, jsonized) ==
  IF jsonized.exc # "none" THEN JobOutcome(jsonized.exc, JNone, FALSE, 0, <<>>)
  ELSE xml_document_to_dict(xml_document, Some(jsonized.value), None, None, {}, TRUE)

(* ------------------------------ inputs --------------------------------- *)
Names == {"a", "b"}
Indices == {-1, 0, 1}
SliceNums == {0, 1}
OptSliceNums == {None} \cup {Some(n) : n \in SliceNums}

Opt(o) == IF o = None THEN <<>> ELSE <<Nm(o[1])>>

\* Written segments: .name, [i], and [start:stop:step] with start and step
\* optional.
NameSegs == {<<Ch("."), Ch(n)>> : n \in Names}
IndexSegs == {<<Ch("["), Nm(i), Ch("]")>> : i \in Indices}
SliceSegs ==
  {<<Ch("[")>> \o Opt(a) \o <<Ch(":"), Nm(b)>>
     \o (IF c = None THEN <<>> ELSE <<Ch(":")>> \o Opt(c)) \o <<Ch("]")>> :
     a \in OptSliceNums, b \in SliceNums, c \in OptSliceNums}

RECURSIVE SegTexts(_, _)
SegTexts(segs, n) ==
  IF n = 0 THEN {<<>>}
  ELSE {<<>>} \cup {s \o t : s \in segs, t \in SegTexts(segs, n - 1)}

Roots == {"$", "@"}
\* Texts of sink paths, and the empty text.
PathTexts ==
  {<<>>} \cup
  {<<Ch(r)>> \o t : r \in Roots, t \in SegTexts(NameSegs \cup IndexSegs \cup SliceSegs, MaxSegs)}
\* Texts of sink paths of field names and indices.
FieldTexts ==
  {<<Ch(r)>> \o t : r \in Roots, t \in SegTexts(NameSegs \cup IndexSegs, MaxSegs)}
\* Texts handed to append: relative ones, absolute ones, ones with no root
\* marker and the empty text.
ArgTexts ==
  {<<>>, <<Ch("@")>>, <<Ch("@"), Ch("."), Ch("a")>>, <<Ch("@"), Ch("["), Nm(0), Ch("]")>>,
   <<Ch("@"), Ch("."), Ch("a"), Ch("."), Ch("b")>>, <<Ch("@"), Ch("["), Nm(0), Ch(":"), Nm(1), Ch("]")>>,
   <<Ch("$")>>, <<Ch("$"), Ch("."), Ch("a")>>, <<Ch("."), Ch("a")>>, <<Ch("a")>>}
\* Texts of source paths: absolute (/a/b) and relative (./a/b), of element
\* names a, b and ab.
XPathTexts ==
  {r \o t : r \in {<<>>, <<Ch(".")>>},
            t \in SegTexts({<<Ch("/"), Ch(n)>> : n \in Names}
                           \cup {<<Ch("/"), Ch("a"), Ch("b")>>}, MaxSegs)}
\* Texts of source paths with repetition indices, a namespace-qualified name
\* (n:a) and a final attribute (@i); the bare relative path '.' is one.
SourceIndices == {-1, 0, 1, 2}
SourceSegs ==
  {<<Ch("/"), Ch(n)>> : n \in Names}
  \cup {<<Ch("/"), Ch("a"), Ch("["), Nm(k), Ch("]")>> : k \in SourceIndices}
  \cup {<<Ch("/"), Ch("n"), Ch(":"), Ch("a")>>}
SourcePathTexts ==
  {r \o t \o a : r \in {<<>>, <<Ch(".")>>}, t \in SegTexts(SourceSegs, MaxSegs),
                 a \in {<<>>, <<Ch("/"), Ch("@"), Ch("i")>>}} \ {<<>>}
\* Attribute tags handed to to_json_path.
AttributeTags == {<<>>, <<Ch("_")>>}
Ats == (0 - (MaxSegs + 2))..(MaxSegs + 2)

Entry(k, v) == [key |-> Name(k), val |-> v]
Leaves ==
  {JInt(5), JBool(TRUE), JStr("X"), JNone, JDict({}), JList(<<>>), JList(<<JInt(7)>>)}
RECURSIVE Values(_)
Values(depth) ==
  IF depth = 0 THEN Leaves
  ELSE Leaves
       \cup {JDict({Entry(k, v)} \cup sib) :
               k \in Names, v \in Values(depth - 1), sib \in {{}, {Entry("c", JInt(3))}}}
       \cup {JList(<<v>>) : v \in Values(depth - 1)}
\* Documents: dictionaries and lists.
Docs == {v \in Values(MaxDepth) : v.t \in {"dict", "list"}}
Items == {JInt(1), JStr("Y"), JNone, JDict({}), JList(<<>>), JDict({Entry("k", JInt(43))})}

\* Source documents: a root element with a text and an attribute i, or with
\* up to MaxItems children a.
ElementTexts == {None, Some("x"), Some("7"), Some(" "), Some("true")}
ItemTexts == {None, Some("x"), Some("7")}
AttribSets == {{}, {[name |-> "i", value |-> "7"]}, {[name |-> "i", value |-> " "]}}
ItemElements == {Element("a", t, {}, <<>>) : t \in ItemTexts}

RECURSIVE ElementLists(_)
ElementLists(n) ==
  IF n = 0 THEN {<<>>}
  ELSE ElementLists(n - 1)
       \cup {Append(l, e) : l \in {m \in ElementLists(n - 1) : Len(m) = n - 1}, e \in ItemElements}

SourceDocuments ==
  {Some(Element("r", t, a, <<>>)) : t \in ElementTexts, a \in AttribSets}
  \cup {Some(Element("r", None, {}, c)) : c \in ElementLists(MaxItems)}

\* The texts of the source and sink paths of the maps.
Here == <<Ch(".")>>
ChildA == <<Ch("."), Ch("/"), Ch("a")>>
AttributeI == <<Ch("."), Ch("/"), Ch("@"), Ch("i")>>
SinkA == <<Ch("$"), Ch("."), Ch("a")>>
ItemA == <<Ch("@"), Ch("."), Ch("a")>>
ItemValue == <<Ch("@"), Ch("."), Ch("value")>>

ScalarSources ==
  {Node(Here, "value"), Node(ChildA, "value"), Node(AttributeI, "attribute"),
   Node(Here, "attribute")}
Transforms == {""} \cup TransformationNames

ScalarMaps ==
  {XMLNodeToJSONNode(f, Node(SinkA, k), t, <<>>) :
     f \in ScalarSources, k \in JSONNodeType, t \in Transforms}

ItemMappingLists ==
  {<<>>,
   <<XMLNodeToJSONNode(Node(Here, "value"), Node(ItemValue, "string"), "", <<>>)>>,
   <<XMLNodeToJSONNode(Node(Here, "value"), Node(ItemValue, "string"), "", <<>>),
     XMLNodeToJSONNode(Node(Here, "value"), Node(ItemA, "integer"), "", <<>>)>>}

StructuredMaps ==
  {XMLNodeToJSONNode(Node(ChildA, f), Node(SinkA, k), "", m) :
     f \in {"sequence", "element"}, k \in {"array", "object"}, m \in ItemMappingLists}

NodeMaps == ScalarMaps \cup StructuredMaps

SinkDocuments == {JDict({}), JDict({Entry("a", JList(<<>>))}), JDict({Entry("a", JInt(1))})}

\* JSON-sourced maps and their input documents.
JSONNodeMaps ==
  {JSONNodeToJSONNode(Node(SinkA, "string"), Node(<<Ch("$"), Ch("."), Ch("b")>>, "string"), t, <<>>) :
     t \in Transforms}
InputDocuments ==
  {JDict({}), JDict({Entry("a", JStr("x"))}), JDict({Entry("a", JStr("Y"))}),
   JDict({Entry("a", JInt(1))})}

\* Mapping documents: lists of up to two node maps, well formed or not.
MapEntries ==
  {MapEntry(NodeRef(Here, "value"), NodeRef(SinkA, "string"), <<>>, ""),
   MapEntry(NodeRef(Here, "value"), NodeRef(SinkA, "integer"), <<>>, ""),
   MapEntry(NodeRef(AttributeI, "attribute"), NodeRef(SinkA, "integer"), <<>>, "seven"),
   MapEntry(NodeRef(Here, "value"), NodeRef(SinkA, "string"), <<>>, "missing"),
   MapEntry(NodeRef(<<Ch("a")>>, "value"), NodeRef(SinkA, "string"), <<>>, ""),
   MapEntry(NodeRef(ChildA, "sequence"), NodeRef(SinkA, "array"),
            <<MapEntry(NodeRef(Here, "value"), NodeRef(ItemValue, "string"), <<>>, "")>>, ""),
   MapEntry(NodeRef(ChildA, "sequence"), NodeRef(SinkA, "array"),
            <<MapEntry(NodeRef(Here, "value"), NodeRef(ItemValue, "string"), <<>>, "missing")>>, ""),
   MapEntry(NodeRef(ChildA, "element"), NodeRef(SinkA, "object"),
            <<MapEntry(NodeRef(<<Ch("a")>>, "value"), NodeRef(ItemValue, "string"), <<>>, "")>>, "")}

MapDocuments ==
  {<<>>} \cup {<<e>> : e \in MapEntries} \cup {<<e, f>> : e \in MapEntries, f \in MapEntries}

BuiltMaps ==
  {<<XMLNodeToJSONNode(Node(Here, "value"), Node(SinkA, "integer"), "", <<>>),
     XMLNodeToJSONNode(Node(AttributeI, "attribute"), Node(SinkA, "boolean"), "", <<>>)>>}

JobDocuments ==
  {Some(Element("r", t, a, <<>>)) : t \in {None, Some("x"), Some("7")}, a \in AttribSets}
  \cup {Some(Element("r", None, {}, c)) : c \in ElementLists(MaxItems - 1)}

Registries == {{}, TransformationNames}

\* Element lists handed to from_json_path_structure: a root marker, then
\* names, integer indices and slices with every bound absent, 0 or 1.
StructureElements ==
  {Name(n) : n \in Names} \cup {Index(i) : i \in Indices}
  \cup {Slice(a, b, c) : a \in OptSliceNums, b \in OptSliceNums, c \in OptSliceNums}
RECURSIVE StructureTails(_)
StructureTails(n) ==
  IF n = 0 THEN {<<>>}
  ELSE {<<>>} \cup {<<e>> \o t : e \in StructureElements, t \in StructureTails(n - 1)}
Structures == {<<Name(r)>> \o t : r \in Roots, t \in StructureTails(MaxSegs)}

\* Malformed sink path texts: an unmatched bracket, an empty segment, a first
\* character that is no root marker, and the empty text.
MalformedPathTexts ==
  {<<>>,
   <<Ch("$"), Ch("."), Ch("a"), Ch("["), Nm(0)>>,
   <<Ch("$"), Ch("."), Ch("a"), Ch("]")>>,
   <<Ch("$"), Ch("."), Ch("a"), Ch("["), Nm(0), Ch(":")>>,
   <<Ch("$"), Ch("."), Ch("."), Ch("a")>>,
   <<Ch("$"), Ch(".")>>,
   <<Ch("a"), Ch("."), Ch("b")>>,
   <<Ch("."), Ch("a")>>,
   <<Ch("["), Nm(0), Ch("]")>>}
\* Malformed source path texts: an unmatched bracket, an empty segment, a
\* first character that is neither '/' nor '.', and the empty text.
MalformedXPathTexts ==
  {<<>>,
   <<Ch("/"), Ch("a"), Ch("["), Nm(1)>>,
   <<Ch("/"), Ch("a"), Ch("]")>>,
   <<Ch("/"), Ch("a"), Ch("/"), Ch("/"), Ch("b")>>,
   <<Ch("/"), Ch("a"), Ch("/")>>,
   <<Ch("a"), Ch("/"), Ch("b")>>,
   <<Ch("["), Nm(1), Ch("]")>>}

\* Source path texts with full namespaces in braces, and namespace tables
\* as lists of <<short, full>> pairs.
BracedTexts ==
  {<<Ch("/"), Ch("{"), Ch("u"), Ch("}"), Ch("a")>>,
   <<Ch("/"), Ch("{"), Ch("u"), Ch("}"), Ch("a"), Ch("/"), Ch("{"), Ch("v"), Ch("}"), Ch("b")>>,
   <<Ch("/"), Ch("a"), Ch("/"), Ch("@"), Ch("{"), Ch("v"), Ch("}"), Ch("i")>>,
   <<Ch("/"), Ch("{"), Ch("}"), Ch("a")>>,
   <<Ch("/"), Ch("{"), Ch("w"), Ch("}"), Ch("a")>>}
\* Texts of receivers and ancestors of relative_to: the source path texts
\* and some with a repetition index.
RelativeTexts ==
  XPathTexts
  \cup {<<Ch("/"), Ch("a"), Ch("["), Nm(1), Ch("]")>>,
        <<Ch("/"), Ch("a"), Ch("["), Nm(1), Ch("]"), Ch("/"), Ch("b")>>,
        <<Ch("/"), Ch("a"), Ch("["), Nm(1), Ch("]"), Ch("/"), Ch("@"), Ch("i")>>}
NamespaceTables ==
  {<<>>, <<<<"n", "u">>>>, <<<<"n", "u">>, <<"m", "v">>>>, <<<<"n", "u">>, <<"m", "u">>>>,
   <<<<"m", "v">>, <<"n", "u">>, <<"k", "w">>>>}

\* Documents handed to the inference: a root with elements a and c., these
\* with elements a (with or without an attribute), and these with elements
\* a and ab; every element occurs once or as MaxCopies equal copies.
Copies(e, k) == [i \in 1..k |-> e]
Repeats == {1, MaxCopies}
InnerLists ==
  {<<>>} \cup {Copies(Element(t, Some("x"), {}, <<>>), k) : t \in {"a", "ab"}, k \in Repeats}
MiddleLists ==
  {<<>>} \cup {Copies(Element("a", None, a, c), k) :
                 a \in {{}, {[name |-> "i", value |-> "7"]}}, c \in InnerLists, k \in Repeats}
OuterElements == {Element(t, None, {}, c) : t \in {"a", "c."}, c \in MiddleLists}
OuterLists ==
  {<<>>} \cup {Copies(e, k) : e \in OuterElements, k \in Repeats}
  \cup {Copies(e, k) \o Copies(f, j) :
          e \in {x \in OuterElements : x.tag = "a"}, f \in {x \in OuterElements : x.tag = "c."},
          k \in Repeats, j \in Repeats}
InferDocuments == {Some(Element("r", None, {}, c)) : c \in OuterLists}

(* ---------------------------- state machine ---------------------------- *)
VARIABLES
  op,      \* the last operation: "none", "init", "split", "rejoin", "append",
           \* "xinit", "xsplit", "descendant", "to_json_path", "read", "write",
           \* "map", "map_json", "job", "from_structure", "parsed", "xparsed",
           \* "relative_to", "remove_indices", "shorten_namespaces",
           \* "build_node_tree", "build_sequence_tree", "inferred", "round_trip"
  path,    \* the JSONPath object operated on
  arg,     \* the JSONPath object handed to append
  at,      \* the position handed to split
  exc,     \* the exception class the last path operation raised, or "none"
  parts,   \* the two JSONPath objects split returned
  xpath,   \* the XPath object operated on
  xparts,  \* the two XPath objects XPath.split returned
  given,   \* the document value handed to the reader / writer
  json,    \* the caller's document object after the call
  item,    \* the value handed to the writer
  out,     \* the outcome of the reader / writer
  ancestor,         \* the XPath object handed to is_descendant_of
  answer,           \* what is_descendant_of returned
  attributes,       \* the attribute tag handed to to_json_path
  with_namespaces,  \* the namespace flag handed to to_json_path
  mapping,          \* the NodeMap whose map was called
  xml_etree,        \* the source element handed to map / the parsed source document
  input_json,       \* the input document handed to JSONNodeToJSONNode.map
  ignore_empty,     \* the ignore_empty flag handed to map / to the job
  mapped,           \* what map returned or raised, and the writes it made
  jsonize_map_document,  \* the mapping document handed to the job, or None
  jsonize_map,      \* the built maps handed to the job, or None
  transformations,  \* the names of the transformations handed to the job
  job,              \* what xml_document_to_dict did
  structure,        \* the element list handed to from_json_path_structure
  given_text,       \* the text handed to a path constructor
  before,           \* the receiving XPath object before a call with an in_place flag
  in_place,         \* the in_place flag handed to the call
  returned,         \* what the call returned: None or an XPath object
  handed,           \* the ancestor and the namespace table as they were handed in
  aliased,          \* whether the ancestor handed in is the receiving object itself
  xml_namespaces,   \* the namespace table after the call
  sequence_nodes,   \* the pending sequence candidates
  leaf_nodes,       \* the pending leaves and the sequences built so far
  started,          \* the lists build_node_tree handed to build_sequence_tree
  passes            \* the number of invocations of build_sequence_tree that trimmed

xvars == <<ancestor, answer, attributes, with_namespaces>>
mvars == <<mapping, xml_etree, input_json, ignore_empty, mapped, jsonize_map_document,
           jsonize_map, transformations, job>>
\* State of the structure, parsing, in-place and inference operations.
\* State of the operations with an in_place flag.
fvars == <<before, in_place, returned, handed, aliased, xml_namespaces>>
\* State of the inference: the arguments of the current invocation of
\* build_sequence_tree, those of the first and the number of invocations.
tvars == <<sequence_nodes, leaf_nodes, started, passes>>
nvars == <<structure, given_text, fvars, tvars>>
vars == <<op, path, arg, at, exc, parts, xpath, xparts, given, json, item, out, xvars, mvars,
          nvars>>

NoOut == Return(JNone)
NoMap == XMLNodeToJSONNode(Node(<<>>, ""), Node(<<>>, ""), "", <<>>)

Init ==
  /\ op = "none" /\ path = NoPath /\ arg = NoPath /\ at = 0 /\ exc = "none"
  /\ parts = NoParts /\ xpath = NoXPath /\ xparts = NoXParts
  /\ given = JNone /\ json = JNone /\ item = JNone /\ out = NoOut
  /\ ancestor = NoXPath /\ answer = FALSE /\ attributes = <<>> /\ with_namespaces = TRUE
  /\ mapping = NoMap /\ xml_etree = None /\ input_json = JNone /\ ignore_empty = TRUE
  /\ mapped = Returned(JNone, <<>>) /\ jsonize_map_document = None /\ jsonize_map = None
  /\ transformations = {} /\ job = NoJob
  /\ structure = <<>> /\ given_text = <<>>
  /\ before = NoXPath /\ in_place = FALSE /\ returned = None /\ aliased = FALSE
  /\ handed = [ancestor |-> NoXPath, xml_namespaces |-> <<>>] /\ xml_namespaces = <<>>
  /\ sequence_nodes = <<>> /\ leaf_nodes = <<>> /\ passes = 0
  /\ started = [sequences |-> <<>>, leaves |-> <<>>]

\* path = JSONPath(text)
NewJSONPath ==
  /\ op = "none"
  /\ \E text \in PathTexts : path' = JSONPath(text)
  /\ op' = "init"
  /\ UNCHANGED <<arg, at, exc, parts, xpath, xparts, given, json, item, out, xvars, mvars, nvars>>

\* parts = path.split(at)
Split ==
  /\ op = "init"
  /\ \E a \in Ats :
       LET r == JSONPath_split(path, a) IN
       /\ at' = a /\ exc' = r.exc /\ parts' = r.parts
  /\ op' = "split"
  /\ UNCHANGED <<path, arg, xpath, xparts, given, json, item, out, xvars, mvars, nvars>>

\* prefix, suffix = parts; prefix.append(suffix)
Rejoin ==
  /\ op = "split" /\ exc = "none"
  /\ LET r == JSONPath_append(parts.prefix, parts.suffix) IN
     /\ exc' = r.exc /\ parts' = [parts EXCEPT !.prefix = r.self]
  /\ op' = "rejoin"
  /\ UNCHANGED <<path, arg, at, xpath, xparts, given, json, item, out, xvars, mvars, nvars>>

\* path.append(JSONPath(text))
AppendPath ==
  /\ op = "init"
  /\ \E text \in ArgTexts :
       LET r == JSONPath_append(path, JSONPath(text)) IN
       /\ arg' = JSONPath(text) /\ exc' = r.exc /\ path' = r.self
  /\ op' = "append"
  /\ UNCHANGED <<at, parts, xpath, xparts, given, json, item, out, xvars, mvars, nvars>>

\* xpath = XPath(text)
NewXPath ==
  /\ op = "none"
  /\ \E text \in XPathTexts \cup SourcePathTexts : xpath' = XPath(text)
  /\ op' = "xinit"
  /\ UNCHANGED <<path, arg, at, exc, parts, xparts, given, json, item, out, xvars, mvars, nvars>>

\* xparts = xpath.split(at)
XSplit ==
  /\ op = "xinit"
  /\ \E a \in Ats :
       LET r == XPath_split(xpath, a) IN
       /\ at' = a /\ exc' = r.exc /\ xparts' = r.parts
  /\ op' = "xsplit"
  /\ UNCHANGED <<path, arg, parts, xpath, given, json, item, out, xvars, mvars, nvars>>

\* answer = xpath.is_descendant_of(XPath(text))
Descendant ==
  /\ op = "xinit"
  /\ \E text \in XPathTexts :
       /\ ancestor' = XPath(text)
       /\ answer' = is_descendant_of(xpath, XPath(text))
  /\ op' = "descendant"
  /\ UNCHANGED <<path, arg, at, exc, parts, xpath, xparts, given, json, item, out,
                 attributes, with_namespaces, mvars, nvars>>

\* path = xpath.to_json_path(tag, ns)
ToJsonPath ==
  /\ op = "xinit"
  /\ \E tag \in AttributeTags, ns \in BOOLEAN :
     \E r \in {to_json_path(xpath, tag, ns)} :
       /\ attributes' = tag /\ with_namespaces' = ns
       /\ exc' = r.exc /\ path' = r.path
  /\ op' = "to_json_path"
  /\ UNCHANGED <<arg, at, parts, xpath, xparts, given, json, item, out, ancestor, answer, mvars, nvars>>

\* out = get_item_from_json_path(JSONPath(text), doc)
Read ==
  /\ op = "none"
  /\ \E text \in FieldTexts, doc \in Docs :
     \E r \in {get_item_from_json_path(JSONPath(text), doc)} :
       /\ path' = JSONPath(text) /\ given' = doc /\ json' = doc /\ out' = r
  /\ op' = "read"
  /\ UNCHANGED <<arg, at, exc, parts, xpath, xparts, item, xvars, mvars, nvars>>

\* out = write_item_in_path(v, JSONPath(text), doc)
Write ==
  /\ op = "none"
  /\ \E v \in Items, text \in FieldTexts, doc \in Docs :
     \E r \in {write_item_in_path(v, JSONPath(text), doc)} :
       /\ path' = JSONPath(text) /\ given' = doc /\ item' = v
       /\ json' = r.json_after
       /\ out' = [exc |-> r.exc, argc |-> r.argc, at_path |-> r.at_path, value |-> r.value]
  /\ op' = "write"
  /\ UNCHANGED <<arg, at, exc, parts, xpath, xparts, xvars, mvars, nvars>>

\* mapped = mapping.map(xml_etree, json, ignore_empty=ignore_empty)
MapXML ==
  /\ op = "none"
  /\ \E m \in NodeMaps, x \in SourceDocuments, doc \in SinkDocuments, ie \in BOOLEAN :
     \E r \in {XMLNodeToJSONNode_map(m, x, doc, ie, <<>>)} :
       /\ mapping' = m /\ xml_etree' = x /\ given' = doc /\ json' = doc
       /\ ignore_empty' = ie /\ mapped' = r
  /\ op' = "map"
  /\ UNCHANGED <<path, arg, at, exc, parts, xpath, xparts, item, out, xvars,
                 input_json, jsonize_map_document, jsonize_map, transformations, job, nvars>>

\* mapped = mapping.map(input_json, output_json, ignore_empty)
MapJSON ==
  /\ op = "none"
  /\ \E m \in JSONNodeMaps, x \in InputDocuments, doc \in SinkDocuments, ie \in BOOLEAN :
     \E r \in {JSONNodeToJSONNode_map(m, x, doc, ie, <<>>)} :
       /\ mapping' = m /\ input_json' = x /\ given' = doc /\ json' = doc
       /\ ignore_empty' = ie /\ mapped' = r
  /\ op' = "map_json"
  /\ UNCHANGED <<path, arg, at, exc, parts, xpath, xparts, item, out, xvars,
                 xml_etree, jsonize_map_document, jsonize_map, transformations, job, nvars>>

\* job = xml_document_to_dict(xml_document, jsonize_map_document, jsonize_map,
\*                            json=json, transformations=..., ignore_empty=...)
Job ==
  /\ op = "none"
  /\ \E x \in JobDocuments, ie \in BOOLEAN, ts \in Registries,
        doc \in {None} \cup {Some(d) : d \in SinkDocuments},
        md \in {None} \cup {Some(l) : l \in MapDocuments},
        jm \in {None} \cup {Some(l) : l \in BuiltMaps} :
     \E r \in {xml_document_to_dict(x, md, jm, doc, ts, ie)} :
       /\ (jm = None \/ md = None)
       /\ xml_etree' = x /\ ignore_empty' = ie /\ transformations' = ts
       /\ given' = (IF doc = None THEN JNone ELSE doc[1])
       /\ json' = (IF doc = None THEN JNone ELSE doc[1])
       /\ jsonize_map_document' = md /\ jsonize_map' = jm
       /\ job' = r
  /\ op' = "job"
  /\ UNCHANGED <<path, arg, at, exc, parts, xpath, xparts, item, out, xvars,
                 mapping, input_json, mapped, nvars>>

\* path = JSONPath.from_json_path_structure(structure)
FromStructure ==
  /\ op = "none"
  /\ \E s \in Structures :
       LET r == from_json_path_structure(s) IN
       /\ structure' = s /\ exc' = r.exc /\ path' = r.path
  /\ op' = "from_structure"
  /\ UNCHANGED <<arg, at, parts, xpath, xparts, given, json, item, out, xvars, mvars, given_text, fvars, tvars>>

\* path = JSONPath(text), of a well-formed or a malformed text
ParseJSONPath ==
  /\ op = "none"
  /\ \E t \in PathTexts \cup MalformedPathTexts :
       LET r == [exc |-> "none", self |-> JSONPath(t)] IN
       /\ given_text' = t /\ exc' = r.exc /\ path' = r.self
  /\ op' = "parsed"
  /\ UNCHANGED <<arg, at, parts, xpath, xparts, given, json, item, out, xvars, mvars, structure, fvars, tvars>>

\* xpath = XPath(text), of a well-formed or a malformed text
ParseXPath ==
  /\ op = "none"
  /\ \E t \in SourcePathTexts \cup MalformedXPathTexts :
       LET r == [exc |-> "none", self |-> XPath(t)] IN
       /\ given_text' = t /\ exc' = r.exc /\ xpath' = r.self
  /\ op' = "xparsed"
  /\ UNCHANGED <<path, arg, at, parts, xparts, given, json, item, out, xvars, mvars, structure, fvars, tvars>>

\* xpath.relative_to(ancestor, in_place=...), the ancestor being another
\* object or the receiver itself
RelativeTo ==
  /\ op = "none"
  /\ \E t \in RelativeTexts, a \in RelativeTexts, f \in BOOLEAN, same \in BOOLEAN :
       LET anc == IF same THEN XPath(t) ELSE XPath(a)
           r == XPath_relative_to(XPath(t), anc, f)
       IN /\ before' = XPath(t) /\ in_place' = f /\ aliased' = same
          /\ handed' = [ancestor |-> anc, xml_namespaces |-> <<>>]
          /\ exc' = r.exc /\ xpath' = r.self /\ returned' = r.returned
          /\ ancestor' = (IF same THEN r.self ELSE anc)
  /\ op' = "relative_to"
  /\ UNCHANGED <<path, arg, at, parts, xparts, given, json, item, out, answer, attributes,
                 with_namespaces, mvars, structure, given_text, xml_namespaces, tvars>>

\* xpath.remove_indices(in_place=...)
RemoveIndices ==
  /\ op = "none"
  /\ \E t \in XPathTexts \cup SourcePathTexts, f \in BOOLEAN :
       LET r == remove_indices(XPath(t), f) IN
       /\ before' = XPath(t) /\ in_place' = f
       /\ exc' = r.exc /\ xpath' = r.self /\ returned' = r.returned
  /\ op' = "remove_indices"
  /\ UNCHANGED <<path, arg, at, parts, xparts, given, json, item, out, xvars, mvars,
                 structure, given_text, handed, aliased, xml_namespaces, tvars>>

\* xpath.shorten_namespaces(xml_namespaces, in_place=...)
ShortenNamespaces ==
  /\ op = "none"
  /\ \E t \in BracedTexts \cup XPathTexts, ns \in NamespaceTables, f \in BOOLEAN :
       LET r == shorten_namespaces(XPath(t), ns, f) IN
       /\ before' = XPath(t) /\ in_place' = f
       /\ handed' = [ancestor |-> NoXPath, xml_namespaces |-> ns]
       /\ xml_namespaces' = ns
       /\ exc' = r.exc /\ xpath' = r.self /\ returned' = r.returned
  /\ op' = "shorten_namespaces"
  /\ UNCHANGED <<path, arg, at, parts, xparts, given, json, item, out, xvars, mvars,
                 structure, given_text, aliased, tvars>>

\* build_node_tree(tree), up to its call of build_sequence_tree
BuildNodeTree ==
  /\ op = "none"
  /\ \E tree \in InferDocuments, backwards \in BOOLEAN :
     \E r \in {build_node_tree(tree, backwards)} :
       /\ xml_etree' = tree /\ started' = r
       /\ sequence_nodes' = r.sequences /\ leaf_nodes' = r.leaves
  /\ passes' = 0
  /\ op' = "build_node_tree"
  /\ UNCHANGED <<path, arg, at, exc, parts, xpath, xparts, given, json, item, out, xvars,
                 mapping, input_json, ignore_empty, mapped, jsonize_map_document, jsonize_map,
                 transformations, job, structure, given_text, fvars>>

\* One invocation of build_sequence_tree(sequence_nodes, leaf_nodes): the
\* return, or the call of itself with the trimmed lists.
BuildSequenceTree ==
  /\ op \in {"build_node_tree", "build_sequence_tree"}
  /\ passes < MaxPasses
  /\ \E r \in {build_sequence_tree(sequence_nodes, leaf_nodes)} :
       /\ sequence_nodes' = r.sequence_nodes /\ leaf_nodes' = r.leaf_nodes
       /\ op' = (IF r.returns THEN "inferred" ELSE "build_sequence_tree")
       /\ passes' = (IF r.returns THEN passes ELSE passes + 1)
  /\ UNCHANGED <<path, arg, at, exc, parts, xpath, xparts, given, json, item, out, xvars, mvars,
                 structure, given_text, fvars, started>>

\* infer_jsonize_map(xml_document) from the call of to_jsonize on, and
\* xml_document_to_dict(xml_document, jsonize_map_document=...) of the
\* inferred map on the same document
RoundTrip ==
  /\ op = "inferred"
  /\ \E jsonized \in {infer_jsonize_map(leaf_nodes)} :
     \E r \in {run_inferred(xml_etree, jsonized)} :
       /\ jsonize_map_document' = Some(jsonized.value)
       /\ job' = r
  /\ jsonize_map' = None /\ given' = JNone /\ json' = JNone
  /\ transformations' = {} /\ ignore_empty' = TRUE
  /\ op' = "round_trip"
  /\ UNCHANGED <<path, arg, at, exc, parts, xpath, xparts, item, out, xvars,
                 mapping, xml_etree, input_json, mapped, structure, given_text, fvars, tvars>>

NextPath == NewJSONPath \/ Split \/ Rejoin \/ AppendPath \/ NewXPath \/ XSplit
NextTree == Read \/ Write
NextXPath == NewXPath \/ Descendant \/ ToJsonPath
NextMap == MapXML \/ MapJSON
NextJob == Job
NextRender == FromStructure
NextParse == ParseJSONPath \/ ParseXPath
NextInPlace == RelativeTo \/ RemoveIndices \/ ShortenNamespaces
NextInfer == BuildNodeTree \/ BuildSequenceTree
NextRoundTrip == NextInfer \/ RoundTrip
Next ==
  \/ NextPath \/ NextTree \/ NextXPath \/ NextMap \/ NextJob
  \/ NextRender \/ NextParse \/ NextInPlace \/ NextRoundTrip

Spec == Init /\ [][Next]_vars
\* The path algebra alone, and the reader and writer alone.
SpecPath == Init /\ [][NextPath]_vars
SpecTree == Init /\ [][NextTree]_vars
\* The source path relations and the source-to-sink bridge alone.
SpecXPath == Init /\ [][NextXPath]_vars
\* The node maps alone, and the mapping job alone.
SpecMap == Init /\ [][NextMap]_vars
SpecJob == Init /\ [][NextJob]_vars
\* Paths built from element lists.
SpecRender == Init /\ [][NextRender]_vars
\* Paths constructed from well-formed and malformed texts.
SpecParse == Init /\ [][NextParse]_vars
\* Source path operations with an in_place flag.
SpecInPlace == Init /\ [][NextInPlace]_vars
\* The inference of a node tree from a document.
SpecInfer == Init /\ [][NextInfer]_vars
\* The same, where an invocation of build_sequence_tree that has begun runs
\* on: the function calls itself or returns, nothing else is scheduled.
SpecInferFair == SpecInfer /\ WF_vars(BuildSequenceTree)
\* The inference followed by a job that runs the inferred map.
SpecRoundTrip == Init /\ [][NextRoundTrip]_vars

(* ------------------------ what the claims speak of ---------------------- *)
\* The value a path resolves to in a document: the reader's loop over the
\* path's stored segment list.
Resolves(p, doc) == GetLoop(p, p.json_path_structure, 0, doc)

\* The segments after the root marker.
Segments(p) == Tail(p.json_path_structure)

IsFieldPath(p) ==
  /\ Len(p.json_path_structure) >= 2
  /\ IsRootKey(p.json_path_structure[1])
  /\ \A i \in 2..Len(p.json_path_structure) :
       p.json_path_structure[i].k = "name" /\ ~IsRootKey(p.json_path_structure[i])

\* Every ancestor of the last of keys that exists under cur is an object.
RECURSIVE AncestorsAreObjects(_, _)
AncestorsAreObjects(cur, keys) ==
  /\ cur.t = "dict"
  /\ (Len(keys) > 1 /\ HasKey(cur, keys[1]))
       => AncestorsAreObjects(ValueAt(cur, keys[1]), Tail(keys))

\* cur with v at keys, every missing ancestor a new object holding only the
\* next segment.
RECURSIVE Vivified(_, _, _)
Vivified(cur, keys, v) ==
  IF Len(keys) = 1 THEN Update(cur, keys[1], v)
  ELSE Update(cur, keys[1],
              Vivified(IF HasKey(cur, keys[1]) THEN ValueAt(cur, keys[1]) ELSE JDict({}),
                       Tail(keys), v))

\* The prefix of p of its first n segments (root marker included).
Prefix(p, n) == JSONPath_split(p, n).parts.prefix

\* Where reading keys from position pos of cur first fails: "absent" for a
\* missing key or an index out of range, "unindexable" for a value that
\* cannot be indexed by the segment, "ok" when the whole path resolves.
RECURSIVE FirstFailure(_, _, _)
FirstFailure(cur, keys, pos) ==
  IF pos >= Len(keys) THEN [kind |-> "ok", pos |-> pos]
  ELSE IF IsRootKey(keys[pos + 1]) THEN FirstFailure(cur, keys, pos + 1)
  ELSE LET r == Subscript(cur, keys[pos + 1]) IN
       IF r.exc = "none" THEN FirstFailure(r.value, keys, pos + 1)
       ELSE IF r.exc \in {"KeyError", "IndexError"} THEN [kind |-> "absent", pos |-> pos]
       ELSE [kind |-> "unindexable", pos |-> pos]

(* ------------------------------- claims -------------------------------- *)
\* C1: read-after-write.  For every absolute path p that does not resolve to
\* an array in doc and every value v, if write(v, p, doc) returns a document
\* then reading p from that document returns v.
C1_ReadAfterWrite ==
  (op = "write" /\ IsCh(path.raw_json_path, 1, "$")
     /\ ~(Resolves(path, given).exc = "none" /\ Resolves(path, given).value.t = "list")
     /\ out.exc = "none")
  => /\ Resolves(path, out.value).exc = "none"
     /\ Resolves(path, out.value).value = item

\* C2: overwrite idempotence.  For a field path p whose existing ancestors are
\* objects and which does not resolve to an array in doc, and all values v1
\* and v2, write(v2, p, write(v1, p, doc)) and write(v2, p, doc) are both
\* documents and are equal.
C2_OverwriteIdempotence ==
  (op = "write" /\ IsFieldPath(path) /\ AncestorsAreObjects(given, Segments(path))
     /\ ~(Resolves(path, given).exc = "none" /\ Resolves(path, given).value.t = "list"))
  => /\ out.exc = "none"
     /\ \A v2 \in Items :
          LET twice == write_item_in_path(v2, path, out.value)
              once == write_item_in_path(v2, path, given) IN
          twice.exc = "none" /\ once.exc = "none" /\ twice.value = once.value

\* C3: array accumulation.  When p resolves to an array in doc, write(v, p,
\* doc) returns doc with v appended as the last element of that array and
\* nothing else changed.
C3_ArrayAccumulation ==
  (op = "write" /\ Resolves(path, given).exc = "none" /\ Resolves(path, given).value.t = "list")
  => /\ out.exc = "none"
     /\ out.value = SetAt(given, path.json_path_structure,
                          JList(Append(Resolves(path, given).value.l, item)))

\* C4: auto-vivification.  Writing v at a field path whose trailing ancestors
\* are missing and whose existing ancestors are objects returns doc with each
\* missing ancestor a new object holding only the next segment, v at the full
\* path and every entry of doc kept.
C4_AutoVivification ==
  (op = "write" /\ IsFieldPath(path) /\ AncestorsAreObjects(given, Segments(path))
     /\ Len(Segments(path)) >= 2
     /\ Resolves(Prefix(path, Len(path.json_path_structure) - 1), given).exc = "KeyError")
  => /\ out.exc = "none"
     /\ out.value = Vivified(given, Segments(path), item)

\* C5: conflict detection.  When a proper ancestor of atPath resolves to a
\* non-indexable value (a number, a boolean, null), write fails with
\* TypeError carrying the path of that ancestor.
C5_ConflictDetection ==
  op = "write" =>
    \A n \in 1..(Len(path.json_path_structure) - 1) :
      (Resolves(Prefix(path, n), given).exc = "none"
         /\ Resolves(Prefix(path, n), given).value.t \in {"int", "bool", "None"})
      => /\ out.exc = "TypeError"
         /\ out.argc = 2
         /\ JSONPath_eq(out.at_path, Prefix(path, n))

\* C6: write is pure.  After every call, returning or failing, the document
\* passed to write is what it was before the call.
C6_WriteIsPure ==
  op = "write" => json = given

\* C7: read failure reporting.  read(path, doc) fails with KeyError carrying
\* the prefix of path up to and including the first absent segment (a missing
\* key or an index out of range), and with TypeError carrying that prefix
\* when the value reached cannot be indexed.
C7_ReadFailureReporting ==
  op = "read" =>
    LET f == FirstFailure(given, path.json_path_structure, 0) IN
    /\ f.kind = "absent"
         => out.exc = "KeyError" /\ out.argc = 2
            /\ JSONPath_eq(out.at_path, Prefix(path, f.pos + 1))
    /\ f.kind = "unindexable"
         => out.exc = "TypeError" /\ out.argc = 2
            /\ JSONPath_eq(out.at_path, Prefix(path, f.pos + 1))

\* C8: split/append inverse.  Whenever path.split(at) succeeds, appending the
\* suffix to the prefix gives a path equal to the original path.
C8_SplitAppendInverse ==
  (op = "rejoin" /\ exc = "none") => JSONPath_eq(parts.prefix, path)

\* C9 as claimed: for both path families split(at) fails when at is 0 or at
\* exceeds the number of segments, and succeeds for 1 <= at <= number of
\* segments.
C9_SplitRangeBothFamilies ==
  /\ op = "split" =>
       /\ (at = 0 \/ at > Len(path.json_path_structure)) => exc = "IndexError"
       /\ at \in 1..Len(path.json_path_structure) => exc = "none"
  /\ op = "xsplit" =>
       /\ (at = 0 \/ at > Len(_xpath_structure(xpath))) => exc # "none"
       /\ at \in 1..Len(_xpath_structure(xpath)) => exc = "none"

\* C9 as amended: JSONPath.split(at) fails with IndexError when at is 0 or at
\* exceeds the number of segments and succeeds for 1 <= at <= number of
\* segments; XPath.split(at) fails with ValueError when at <= 0 and succeeds
\* for every at >= 1, returning the whole path and the bare relative path '.'
\* when at is not below the number of segments.
C9_SplitRange ==
  /\ op = "split" =>
       /\ (at = 0 \/ at > Len(path.json_path_structure)) => exc = "IndexError"
       /\ at \in 1..Len(path.json_path_structure) => exc = "none"
  /\ op = "xsplit" =>
       /\ at <= 0 => exc = "ValueError"
       /\ at >= 1 => exc = "none"
       /\ at >= Len(_xpath_structure(xpath))
            => xparts = [prefix |-> xpath, suffix |-> XPath(<<Ch(".")>>)]

\* A source path split beyond its last segment, without error.
C9_Witness ==
  op = "xsplit" /\ at > Len(_xpath_structure(xpath)) /\ exc = "none"
     /\ Len(_xpath_structure(xpath)) >= 2

\* C10: path.append(other) fails with ValueError (not relative) whenever
\* other does not start with '@', leaving the receiver's text and segment
\* list as they were, and never fails when other starts with '@'.
C10_AppendRejectsNonRelative ==
  [][op' = "append" =>
       IF IsCh(arg'.raw_json_path, 1, "@") THEN exc' = "none"
       ELSE exc' = "ValueError" /\ path' = path]_vars

(* ------------------- claims on the source path relations ---------------- *)
\* p is a proper prefix of q.
IsProperPrefix(p, q) == Len(p) < Len(q) /\ SubSeq(q, 1, Len(p)) = p

\* C11: is_descendant_of is the strict prefix relation: d.is_descendant_of(a)
\* is true if and only if the segments of a are a proper prefix of the
\* segments of d; it is false when d equals a, when a matches only part of a
\* segment name, and when the text of a occurs in d elsewhere than at the start.
C11_DescendantIsStrictPrefix ==
  op = "descendant" =>
    (answer <=> IsProperPrefix(_xpath_structure(ancestor), _xpath_structure(xpath)))

\* The name a piece of a source path carries: without its attribute marker,
\* its repetition index and (when namespaces are dropped) its namespace.
PieceName(piece, ns) ==
  LET unmarked == IF IsCh(piece, 1, "@") THEN Tail(piece) ELSE piece
      named == IF IndexOf(unmarked, "[") = 0 THEN unmarked
               ELSE SubSeq(unmarked, 1, IndexOf(unmarked, "[") - 1)
  IN IF ns \/ IndexOf(named, ":") = 0 THEN named
     ELSE SubSeq(named, IndexOf(named, ":") + 1, Len(named))
PieceHasIndex(piece) == IndexOf(piece, "[") # 0
PieceIndex(piece) == piece[IndexOf(piece, "[") + 1].n

\* The sink keys the pieces after the root stand for.
RECURSIVE SinkKeys(_, _, _)
SinkKeys(pieces, tag, ns) ==
  IF pieces = <<>> THEN <<>>
  ELSE <<Name(StrOf((IF IsCh(pieces[1], 1, "@") THEN tag ELSE <<>>)
                    \o PieceName(pieces[1], ns)))>>
       \o (IF PieceHasIndex(pieces[1]) THEN <<Index(PieceIndex(pieces[1]) - 1)>> ELSE <<>>)
       \o SinkKeys(Tail(pieces), tag, ns)

\* C12: to_json_path is segment for segment: for every source path (the bare
\* relative path '.' included) the result is absolute ('$' first) iff the
\* source path is absolute and relative ('@' first) iff it is relative, with
\* the same names in the same order, a final '@attr' rendered as the attribute
\* tag followed by attr, and every repetition index k >= 1 rendered as k - 1;
\* a source index <= 0 makes the call fail.
C12_SegmentForSegment ==
  (op = "to_json_path" /\ xpath.raw_xpath # <<>>) =>
    IF \E i \in 1..Len(_xpath_structure(xpath)) :
         PieceHasIndex(_xpath_structure(xpath)[i]) /\ PieceIndex(_xpath_structure(xpath)[i]) <= 0
    THEN exc # "none"
    ELSE /\ exc = "none"
         /\ is_absolute(path).exc = "none" /\ is_relative(path).exc = "none"
         /\ is_absolute(path).value <=> XPath_is_absolute(xpath).value
         /\ is_relative(path).value <=> XPath_is_relative(xpath)
         /\ path.json_path_structure =
              <<Name(IF XPath_is_absolute(xpath).value THEN "$" ELSE "@")>>
              \o SinkKeys(Tail(_xpath_structure(xpath)), attributes, with_namespaces)

(* ----------------------- claims on the node maps ------------------------ *)
\* The scalar maps, and what their source holds in the document (None when
\* the node is absent).
IsScalarMap(m) == m.source = "xml" /\ m.from_node.node_type \in {"attribute", "value"}
IsAttributePath(p) == XPath_is_attribute(XPath(p)).exc = "none" /\ XPath_is_attribute(XPath(p)).value
SourceNodeAbsent(m, x) ==
  IF m.from_node.node_type = "attribute"
  THEN IsAttributePath(m.from_node.path) /\ _get_attribute(m, x).value = None
  ELSE ~IsAttributePath(m.from_node.path) /\ find(x, m.from_node.path).value = None

\* The document with item at the sink field of a map (the fields of the
\* model's maps are single names under the root).
WithField(doc, to_path, v) == Update(doc, JSONPath(to_path).json_path_structure[2], v)

\* C13: a scalar map (attribute or value) whose source node is absent, for
\* each of the sink kinds string, integer, number, boolean, null and infer:
\* with ignore_empty it returns the sink document unchanged, without it it
\* returns the sink document with None written at the sink path; it never
\* raises.
C13_AbsentScalarSource ==
  (op = "map" /\ IsScalarMap(mapping) /\ SourceNodeAbsent(mapping, xml_etree)
     /\ mapping.to_json_node.node_type \in JSONNodeType \ {"object", "array"})
  => /\ mapped.exc = "none"
     /\ mapped.value = IF ignore_empty THEN given
                       ELSE WithField(given, mapping.to_json_node.path, JNone)

\* The sequence maps with item maps, the nodes they match and the array the
\* sink path holds beforehand (empty when the path holds nothing).
IsSequenceMap(m) == m.source = "xml" /\ m.from_node.node_type = "sequence" /\ m.item_mappings # <<>>
Matches(m, x) == findall(x, m.from_node.path).value
SinkField(m) == JSONPath(m.to_json_node.path).json_path_structure[2]
ArrayBefore(m, doc) ==
  IF HasKey(doc, SinkField(m)) /\ ValueAt(doc, SinkField(m)).t = "list"
  THEN ValueAt(doc, SinkField(m)).l ELSE <<>>
\* The accumulator of one match: every item map run in order from a fresh one.
Accumulator(m, element, fresh, ie) ==
  map_item_mappings(m.item_mappings, <<element>>, fresh, ie, <<>>)

\* C14: a sequence map with n >= 1 matches returns the sink document whose
\* array at the sink path holds what it held before followed by n new
\* elements, the i-th being the accumulator of the i-th match in document
\* order, built from a fresh accumulator by the item maps in order.
C14_SequenceAppendsPerMatch ==
  (op = "map" /\ IsSequenceMap(mapping) /\ mapping.to_json_node.node_type = "array"
     /\ Matches(mapping, xml_etree) # <<>>
     /\ (HasKey(given, SinkField(mapping)) => ValueAt(given, SinkField(mapping)).t = "list"))
  => /\ mapped.exc = "none"
     /\ mapped.value.t = "dict" /\ HasKey(mapped.value, SinkField(mapping))
     /\ ValueAt(mapped.value, SinkField(mapping)).t = "list"
     /\ \E fresh \in {JNone, JDict({})} :
          ValueAt(mapped.value, SinkField(mapping)).l
            = ArrayBefore(mapping, given)
              \o [i \in 1..Len(Matches(mapping, xml_etree)) |->
                    Accumulator(mapping, Matches(mapping, xml_etree)[i], fresh, ignore_empty).value]

\* The scenario of C15: three sibling items, the second without text, and a
\* single item map from the item's value to '@.value'.
ValueItemMap == XMLNodeToJSONNode(Node(Here, "value"), Node(ItemValue, "string"), "", <<>>)
IsThreeItemScenario ==
  /\ op = "map" /\ IsSequenceMap(mapping) /\ mapping.to_json_node.node_type = "array"
  /\ mapping.item_mappings = <<ValueItemMap>>
  /\ Len(Matches(mapping, xml_etree)) = 3
  /\ Matches(mapping, xml_etree)[1].text # None
  /\ Matches(mapping, xml_etree)[2].text = None
  /\ Matches(mapping, xml_etree)[3].text # None
  /\ ~HasKey(given, SinkField(mapping))
ValueObject(v) == JDict({[key |-> Name("value"), val |-> v]})

\* C15: in the three-item scenario the array written holds the first and
\* the third item's value objects, and in between {} under ignore_empty and
\* {"value": None} without it.
C15_EmptySequenceItem ==
  IsThreeItemScenario
  => /\ mapped.exc = "none"
     /\ mapped.value.t = "dict" /\ HasKey(mapped.value, SinkField(mapping))
     /\ ValueAt(mapped.value, SinkField(mapping))
          = JList(<<ValueObject(JStr(Matches(mapping, xml_etree)[1].text[1])),
                    IF ignore_empty THEN JDict({}) ELSE ValueObject(JNone),
                    ValueObject(JStr(Matches(mapping, xml_etree)[3].text[1]))>>)

\* C16: a sequence map with item maps whose source path matches no node:
\* with ignore_empty it returns the sink document unchanged, without it it
\* returns a sink document that holds an empty array at the sink path.
C16_EmptyMatchSet ==
  (op = "map" /\ IsSequenceMap(mapping) /\ mapping.to_json_node.node_type = "array"
     /\ Matches(mapping, xml_etree) = <<>>)
  => /\ mapped.exc = "none"
     /\ IF ignore_empty THEN mapped.value = given
        ELSE /\ mapped.value.t = "dict" /\ HasKey(mapped.value, SinkField(mapping))
             /\ ValueAt(mapped.value, SinkField(mapping)) = JList(<<>>)

\* The str or None a Python object is, as the input of a cast.
InputOf(v) == IF v = JNone THEN None ELSE Some(v.s)
\* The raw value a scalar map extracts.
RawInput(m, x) ==
  IF m.from_node.node_type = "attribute" THEN _get_attribute(m, x).value
  ELSE _get_element_value(m, x).value
\* How the map ends when the cast is applied to the transformed raw value.
CastOfTransformed(m, raw, doc, ie) ==
  map_scalar(m, [exc |-> "none",
                 value |-> InputOf(Transformation_call(m.transform, ItemOf(raw)))],
             doc, ie, <<>>)
WritesOf(e, to_path) ==
  IF e.exc = "none" /\ e.write THEN <<[item |-> e.value, path |-> to_path]>> ELSE <<>>

\* What a JSON-sourced map hands to the writer when its input is v.
JSONWritesOf(v, to_path, ie) ==
  IF NotItem(v) /\ ie THEN <<>> ELSE <<[item |-> v, path |-> to_path]>>

\* C17: a map that carries a transform hands to the sink path the cast of
\* transform(raw extracted value), the transform being applied once and
\* before the cast: what an XML-sourced scalar map hands to the writer (or
\* the cast error it raises) is that of the cast applied to the transformed
\* text, and a JSON-sourced map hands the transformed value of its source
\* path to the writer.
C17_TransformBeforeCast ==
  /\ (op = "map" /\ IsScalarMap(mapping) /\ mapping.transform # ""
        /\ (mapping.from_node.node_type = "attribute" => IsAttributePath(mapping.from_node.path)))
     => /\ mapped.writes
             = WritesOf(CastOfTransformed(mapping, RawInput(mapping, xml_etree), given, ignore_empty),
                        mapping.to_json_node.path)
        /\ (CastOfTransformed(mapping, RawInput(mapping, xml_etree), given, ignore_empty).exc # "none"
              => mapped.exc
                   = CastOfTransformed(mapping, RawInput(mapping, xml_etree), given, ignore_empty).exc)
  /\ (op = "map_json" /\ mapping.transform # ""
        /\ Resolves(JSONPath(mapping.from_node.path), input_json).exc = "none")
     => mapped.writes
          = JSONWritesOf(Transformation_call(mapping.transform,
                           Resolves(JSONPath(mapping.from_node.path), input_json).value),
                         mapping.to_json_node.path, ignore_empty)

RECURSIVE Malformed(_, _)
Malformed(node_map, registry) ==
  \/ node_map.transformation # "" /\ node_map.transformation \notin registry
  \/ infer_path_type(node_map.from.path).exc # "none"
  \/ \E i \in 1..Len(node_map.itemMappings) : Malformed(node_map.itemMappings[i], registry)

StartedFromDocument == op = "job" /\ jsonize_map = None /\ jsonize_map_document # None
HasMalformed ==
  \E i \in 1..Len(jsonize_map_document[1]) :
    Malformed(jsonize_map_document[1][i], transformations)

JobMaps ==
  IF jsonize_map # None THEN [exc |-> "none", value |-> jsonize_map[1]]
  ELSE IF jsonize_map_document = None THEN [exc |-> "ValueError", value |-> <<>>]
  ELSE parse(jsonize_map_document[1], transformations)
JobStart == IF NotItem(given) THEN JDict({}) ELSE given

\* The first map of a list that raises when the maps are applied in order,
\* each to the document the one before returned: its position k (0 when
\* none raises) and the exception.
RECURSIVE FirstRaising(_, _, _, _, _)
FirstRaising(maps, x, result, ie, k) ==
  IF maps = <<>> THEN [k |-> 0, exc |-> "none"]
  ELSE IF job_map(Head(maps), x, result, ie, <<>>).exc # "none"
  THEN [k |-> k, exc |-> job_map(Head(maps), x, result, ie, <<>>).exc]
  ELSE FirstRaising(Tail(maps), x, job_map(Head(maps), x, result, ie, <<>>).value, ie, k + 1)

C30_RenderParseRoundTrip ==
  op = "from_structure" => exc = "none" /\ path.json_path_structure = structure

\* C24: constructing a path of either family from a malformed text (an
\* unmatched bracket, an empty segment, a first character that is no root
\* marker or segment start) raises an exception and produces no path object.
C24_MalformedPathRejected ==
  /\ op = "parsed" /\ given_text \in MalformedPathTexts => exc # "none" /\ path = NoPath
  /\ op = "xparsed" /\ given_text \in MalformedXPathTexts => exc # "none" /\ xpath = NoXPath


(* ------------------------ claims about map order ------------------------ *)
\* The document the maps of a list give when each is applied, in list
\* order, to the document the one before returned (none of them raising).
RECURSIVE AppliedInOrder(_, _, _, _)
AppliedInOrder(maps, x, result, ie) ==
  IF maps = <<>> THEN result
  ELSE AppliedInOrder(Tail(maps), x, job_map(Head(maps), x, result, ie, <<>>).value, ie)

\* A scalar map without transform whose source node is present and holds a
\* value, and what its cast hands to the writer.
HasPresentSource(m, x) ==
  /\ IsScalarMap(m) /\ m.transform = ""
  /\ (m.from_node.node_type = "attribute") = IsAttributePath(m.from_node.path)
  /\ RawInput(m, x) # None
CastOf(m, x, ie) ==
  map_scalar(m, [exc |-> "none", value |-> RawInput(m, x)], JDict({}), ie, <<>>)

\* A job of two scalar maps with present sources whose casts succeed and
\* that target the same sink path, the path holding no array beforehand.
TwoMapsOnOneSink ==
  /\ op = "job" /\ JobMaps.exc = "none" /\ Len(JobMaps.value) = 2
  /\ \A i \in 1..2 :
       /\ HasPresentSource(JobMaps.value[i], xml_etree)
       /\ CastOf(JobMaps.value[i], xml_etree, ignore_empty).exc = "none"
       /\ CastOf(JobMaps.value[i], xml_etree, ignore_empty).write
  /\ JobMaps.value[1].to_json_node.path = JobMaps.value[2].to_json_node.path
  /\ ArrayBefore(JobMaps.value[1], JobStart) = <<>>
  /\ ~(HasKey(JobStart, SinkField(JobMaps.value[1]))
         /\ ValueAt(JobStart, SinkField(JobMaps.value[1])).t = "list")

\* C28: the maps of a job are applied in list order, each to the document
\* the one before returned (the first to the starting sink), and the job
\* returns the document the last one returned; so when two scalar maps with
\* present sources target the same non-array sink path, the job returns a
\* document that holds the value of the later one at that path.
C28_MapsAppliedInOrder ==
  /\ (op = "job" /\ JobMaps.exc = "none"
        /\ FirstRaising(JobMaps.value, xml_etree, JobStart, ignore_empty, 1).k = 0)
     => /\ job.exc = "none" /\ job.applied = Len(JobMaps.value)
        /\ job.value = AppliedInOrder(JobMaps.value, xml_etree, JobStart, ignore_empty)
  /\ TwoMapsOnOneSink
     => /\ job.exc = "none"
        /\ job.value = WithField(JobStart, JobMaps.value[2].to_json_node.path,
                                 CastOf(JobMaps.value[2], xml_etree, ignore_empty).value)


(* ---------------------- claims about the in_place flag ------------------ *)
InPlaceOps == {"relative_to", "remove_indices", "shorten_namespaces"}
\* What the same call with in_place=False does on a path equal to the
\* receiver as it was before the call.
NotInPlace ==
  IF op = "relative_to" THEN XPath_relative_to(before, handed.ancestor, FALSE)
  ELSE IF op = "remove_indices" THEN remove_indices(before, FALSE)
  ELSE shorten_namespaces(before, handed.xml_namespaces, FALSE)
\* The receiver after a call: as it was when in_place is False or the call
\* raised, else equal to the path the call with in_place=False returns.
ReceiverAsFlagged ==
  /\ exc # "none" => xpath = before /\ returned = None
  /\ exc = "none" /\ ~in_place
       => xpath = before /\ returned # None /\ returned = NotInPlace.returned
  /\ exc = "none" /\ in_place => NotInPlace.returned # None /\ xpath = NotInPlace.returned[1]

\* C29 (as claimed): a call of relative_to, remove_indices or
\* shorten_namespaces with in_place=False leaves the receiver unchanged and
\* returns a new path, a call with in_place=True leaves the receiver equal to
\* that path, and the ancestor and the namespace table are as they were
\* handed in after every call.
C29_InPlaceFlag ==
  op \in InPlaceOps
  => /\ ReceiverAsFlagged
     /\ ancestor = handed.ancestor
     /\ xml_namespaces = handed.xml_namespaces

\* C29 (amended): as above, the ancestor being as it was handed in unless it
\* is the receiver itself in a call with in_place=True, where it is the
\* updated receiver.
C29_InPlaceFlagUnlessAliased ==
  op \in InPlaceOps
  => /\ ReceiverAsFlagged
     /\ ancestor = (IF aliased /\ in_place THEN xpath ELSE handed.ancestor)
     /\ xml_namespaces = handed.xml_namespaces

\* relative_to with in_place=True and an ancestor that is another object has
\* changed the receiver.
C29_Witness ==
  op = "relative_to" /\ in_place /\ ~aliased /\ xpath # before /\ ancestor = handed.ancestor


(* ------------------------ claims about the inference -------------------- *)
\* The nodes of a list of nodes, at every depth.
RECURSIVE AllIn(_)
AllIn(nodes) ==
  IF nodes = <<>> THEN {}
  ELSE {Head(nodes)} \cup AllIn(Head(nodes).sub_nodes) \cup AllIn(Tail(nodes))
\* How often a node of the given class first created at origin occurs in a
\* list of nodes, at every depth.
RECURSIVE Occurrences(_, _, _)
Occurrences(nodes, class, origin) ==
  IF nodes = <<>> THEN 0
  ELSE (IF Head(nodes).class = class /\ Head(nodes).origin = origin THEN 1 ELSE 0)
       + Occurrences(Head(nodes).sub_nodes, class, origin)
       + Occurrences(Tail(nodes), class, origin)
\* The location d lies below the location s: the segments of s are a proper
\* prefix of those of d.
Below(d, s) == IsProperPrefix(StrSplit(s, "/"), StrSplit(d, "/"))
Inferring == op \in {"build_node_tree", "build_sequence_tree", "inferred"}

\* C21: every invocation of build_sequence_tree that finds sequence
\* candidates pending selects at least one of them, so that the pending list
\* it hands on is strictly shorter, and the inference of every document ends,
\* with no sequence candidate pending.
C21_InferenceTerminates ==
  /\ [][op' = "build_sequence_tree" => Len(sequence_nodes') < Len(sequence_nodes)]_vars
  /\ (op = "build_node_tree") ~> (op = "inferred" /\ sequence_nodes = <<>>)

\* An inference that took three trimming invocations has ended.
C21_Witness == op = "inferred" /\ passes = 3 /\ sequence_nodes = <<>>

JoinedPath(enclosing, relative) == enclosing \o Tail(relative)
RECURSIVE WellPlaced(_, _)
WellPlaced(nodes, enclosing) ==
  \A i \in 1..Len(nodes) :
    /\ nodes[i].path.raw_xpath # <<>>
    /\ JoinedPath(enclosing, nodes[i].path.raw_xpath) = nodes[i].origin
    /\ WellPlaced(nodes[i].sub_nodes, JoinedPath(enclosing, nodes[i].path.raw_xpath))

\* C25: the path of a node under sequences is made relative exactly once per
\* nesting level: in the tree after every invocation, joining the paths of
\* the enclosing sequences, outermost first, with the node's own relative
\* path gives the node's index-stripped location below the document root.
C25_RelativeOncePerLevel == Inferring => WellPlaced(leaf_nodes, <<Ch(".")>>)

\* C26: the inference neither loses nor duplicates nodes: after every
\* invocation every leaf of the document occurs exactly once among the
\* pending leaves and the nodes under the sequences built so far, every
\* sequence candidate is either pending or built exactly once, and at the
\* end none is pending.
C26_NothingLostOrDuplicated ==
  Inferring
  => /\ \A l \in Range(started.leaves) : Occurrences(leaf_nodes, "XMLNode", l.origin) = 1
     /\ \A s \in Range(started.sequences) :
          Cardinality({i \in 1..Len(sequence_nodes) : sequence_nodes[i].origin = s.origin})
          + Occurrences(leaf_nodes, "XMLSequenceNode", s.origin) = 1
     /\ (op = "inferred" => sequence_nodes = <<>>)


(* ------------------- claims about the inference round trip -------------- *)
\* The value of a text in the sink: a numeral as a number, any other text as
\* a string.
SinkValue(s) == IF s = "7" THEN JInt(7) ELSE JStr(s)

\* The nested structure of an element: one entry for every attribute, one
\* for its text, and one key for every distinct child name, holding the
\* child's structure or, for repeated siblings, an array with one element
\* per repetition.
RECURSIVE Nested(_)
Nested(e) ==
  LET tags == {e.children[i].tag : i \in 1..Len(e.children)}
      tagged(t) == SelectSeq(e.children, LAMBDA c : c.tag = t)
  IN JDict({Entry(a.name, SinkValue(a.value)) : a \in e.attrib}
           \cup (IF e.text # None THEN {Entry("value", SinkValue(e.text[1]))} ELSE {})
           \cup {Entry(t, IF Len(tagged(t)) = 1 THEN Nested(tagged(t)[1])
                          ELSE JList([i \in 1..Len(tagged(t)) |-> Nested(tagged(t)[i])])) :
                   t \in tags})
\* Every element without children holds a text.
RECURSIVE LeavesHoldText(_)
LeavesHoldText(e) ==
  IF e.children = <<>> THEN e.text # None
  ELSE \A i \in 1..Len(e.children) : LeavesHoldText(e.children[i])

\* C23: running the map the inference gives for a document on that same
\* document returns a sink document with the document's nested structure
\* (for the documents all of whose childless elements hold a text, and the
\* document with no element below the root).
C23_InferenceRoundTrip ==
  (op = "round_trip" /\ (xml_etree[1].children = <<>> \/ LeavesHoldText(xml_etree[1])))
  => job.exc = "none" /\ job.value = Nested(xml_etree[1])

============================================================================
